---- MODULE Spec2Model ----
(***************************************************************************)
(* Backtest engine, market simulator and market-data download service of   *)
(* the crypto-trading-panel repository, as a state machine.                *)
(*                                                                         *)
(* Numbers.  The code computes in IEEE doubles; the model computes in      *)
(* integers.  Prices and money are in cents, a position size is a whole    *)
(* number of units, and every division of the code is an integer division *)
(* (rounded down).  config.commissionPercent and config.slippagePercent    *)
(* are fractions in the code (0.0006); here they are given in 1/10000.     *)
(*                                                                         *)
(* Optional numbers.  Every optional number of the code (stopLoss,         *)
(* takeProfit, currentStop, highestPrice, lowestPrice, unrealizedPnl,      *)
(* atrValue) is read through JavaScript truthiness only (if (x), !x,       *)
(* x || 0, x ? a : b), which treats undefined and 0 alike: undefined is 0. *)
(***************************************************************************)
EXTENDS Integers, Sequences, FiniteSets

\* Number of candles of the input series (timestamps 1 .. MaxCandles).
MaxCandles == 3

\* Number of download requests the service receives.
MaxRequests == 3

VARIABLES
    strategy,           \* BacktestEngine.strategy (StrategySchema)
    config,             \* BacktestEngine.config (BacktestConfig)
    pc,                 \* position of run(): "start", "loop", "done", "rejected"
    i,                  \* loop index of run()
    sim,                \* MarketSimulator: portfolio, trades, id source
    equityCurve,        \* BacktestEngine.equityCurve
    peakEquity,         \* BacktestEngine.peakEquity
    executorPosition,   \* StrategyExecutor state.currentPosition
    executeSnapshot,    \* state.currentPosition as execute() read it for every candle
    candle,             \* loop local: filteredData[i] of the iteration last run
    signal,             \* loop local: executionResults[i].signal of the iteration last run
    hadPosition,        \* processSignal local hasPosition of the iteration last run
    closedCount,        \* loop local: closedTrades.length of the iteration last run
    onProgress,         \* the onProgress argument: "unread", "none", "supplied"
    progressEvents,     \* the progress events delivered to onProgress
    result,             \* the BacktestResult run() returned
    cancelRequested,    \* the caller's cancellation signal
    cancelledBefore,    \* index of the first candle not yet processed when it was set
    activeDownloads,    \* MarketDataService.activeDownloads
    fetches,            \* the fetchCachedCandles calls awaited by downloadCandlesWithProgress
    requests,           \* number of downloadCandlesWithProgress calls made
    exchange,           \* the candles the exchange serves for the symbol and timeframe
    candleDocs,         \* CandleCache.candlesCollection: the documents of the symbol and timeframe
    metadata,           \* CandleCache.metadataCollection: the document of the symbol and timeframe
    fetchCalls,         \* the fetchCachedCandles calls that returned: arguments and result
    probe,              \* a window with what findMissingRanges and getCandles returned for it
    writers,            \* the saveCandles calls in progress, one per writer
    data,               \* the data argument of run(): <<>> while each candle is chosen when read
    entropy,            \* the state of crypto's random source when run() is called
    firstRun,           \* the trades and equity curve an earlier run() on the same inputs returned
    clock,              \* Date.now(), in milliseconds
    backtests,          \* BacktestService.backtests
    progressSubjects,   \* BacktestService.progressSubjects: the ids it has a subject for
    executions,         \* the executeBacktest calls started, one per run() of the service
    strategies,         \* StrategiesService.strategies
    updates,            \* the update() calls in progress, one per caller
    mapped,             \* the last calculateAllIndicators call: arguments and mapped values
    paging,             \* a fetchHistoricalOHLCV call in progress: its locals, loop by loop
    evaluated,          \* the last evaluateCondition call: arguments and value
    aggregated          \* the last aggregateOHLCV call: arguments and value

engineVars == <<strategy, config, pc, i, sim, equityCurve, peakEquity, executorPosition,
                executeSnapshot, candle, signal, hadPosition, closedCount, onProgress,
                progressEvents, result, cancelRequested, cancelledBefore>>
downloadVars == <<activeDownloads, fetches, requests>>
cacheVars == <<exchange, candleDocs, metadata, fetchCalls, probe, writers>>
rerunVars == <<data, entropy, firstRun>>
backtestVars == <<clock, backtests, progressSubjects, executions>>
strategyVars == <<strategies, updates>>
libVars == <<paging, evaluated, aggregated>>
apiVars == <<rerunVars, backtestVars, strategyVars, mapped, libVars>>
serviceVars == <<downloadVars, cacheVars, apiVars>>
vars == <<strategy, config, pc, i, sim, equityCurve, peakEquity, executorPosition,
          executeSnapshot, candle, signal, hadPosition, closedCount, onProgress,
          progressEvents, result, cancelRequested, cancelledBefore,
          activeDownloads, fetches, requests,
          exchange, candleDocs, metadata, fetchCalls, probe, writers,
          data, entropy, firstRun, clock, backtests, progressSubjects, executions,
          strategies, updates, mapped, paging, evaluated, aggregated>>

Symbol == "BTCUSDT"
NoPosition == 0

Truthy(x) == x # 0
Abs(x) == IF x < 0 THEN -x ELSE x

\* ---------------------------------------------------------------- inputs

NoStop == [type |-> "none", value |-> 0]
NoTrailing == [enabled |-> FALSE, activationPercent |-> 0, trailPercent |-> 0]

\* Strategies: their exit configuration, risk policy, dataRequirements.lookbackPeriods
\* and indicators.  entryLong and entryShort say whether entrySignals.long / .short
\* are defined.  An indicator is given by whether the registry knows its type and by
\* what its getRequiredPeriods(params) returns.
AlwaysLong ==
    [entryLong |-> TRUE, entryShort |-> FALSE, signalExit |-> TRUE,
     stopLoss |-> NoStop, takeProfit |-> NoStop, trailingStop |-> NoTrailing,
     riskPerTrade |-> 2, maxOpenPositions |-> 1, lookbackPeriods |-> 0,
     indicators |-> <<[registered |-> TRUE, requiredPeriods |-> 1]>>]
LongBracket ==
    [entryLong |-> TRUE, entryShort |-> FALSE, signalExit |-> FALSE,
     stopLoss |-> [type |-> "fixed_percent", value |-> 10],
     takeProfit |-> [type |-> "fixed_percent", value |-> 20],
     trailingStop |-> [enabled |-> TRUE, activationPercent |-> 10, trailPercent |-> 10],
     riskPerTrade |-> 2, maxOpenPositions |-> 1, lookbackPeriods |-> 0,
     indicators |-> <<>>]
LongTrailing ==
    [entryLong |-> TRUE, entryShort |-> TRUE, signalExit |-> FALSE,
     stopLoss |-> [type |-> "fixed_percent", value |-> 20],
     takeProfit |-> NoStop,
     trailingStop |-> [enabled |-> TRUE, activationPercent |-> 10, trailPercent |-> 10],
     riskPerTrade |-> 2, maxOpenPositions |-> 20, lookbackPeriods |-> 0,
     indicators |-> <<[registered |-> FALSE, requiredPeriods |-> 2]>>]
ShortBracket ==
    [entryLong |-> FALSE, entryShort |-> TRUE, signalExit |-> TRUE,
     stopLoss |-> [type |-> "fixed_percent", value |-> 20],
     takeProfit |-> [type |-> "fixed_percent", value |-> 20],
     trailingStop |-> [enabled |-> TRUE, activationPercent |-> 10, trailPercent |-> 10],
     riskPerTrade |-> 2, maxOpenPositions |-> 1, lookbackPeriods |-> 0,
     indicators |-> <<>>]
\* A short-only strategy without stop loss, take profit or trailing stop.
ShortNoStop ==
    [entryLong |-> FALSE, entryShort |-> TRUE, signalExit |-> FALSE,
     stopLoss |-> NoStop, takeProfit |-> NoStop, trailingStop |-> NoTrailing,
     riskPerTrade |-> 2, maxOpenPositions |-> 1, lookbackPeriods |-> 0,
     indicators |-> <<>>]
\* A strategy whose risk policy allows no open position.
LongNoPositions ==
    [entryLong |-> TRUE, entryShort |-> FALSE, signalExit |-> FALSE,
     stopLoss |-> NoStop, takeProfit |-> NoStop, trailingStop |-> NoTrailing,
     riskPerTrade |-> 2, maxOpenPositions |-> 0, lookbackPeriods |-> 1,
     indicators |-> <<[registered |-> TRUE, requiredPeriods |-> 0]>>]
LongWarmup ==
    [entryLong |-> TRUE, entryShort |-> FALSE, signalExit |-> FALSE,
     stopLoss |-> NoStop, takeProfit |-> NoStop, trailingStop |-> NoTrailing,
     riskPerTrade |-> 2, maxOpenPositions |-> 1, lookbackPeriods |-> 1,
     indicators |-> <<[registered |-> TRUE, requiredPeriods |-> MaxCandles + 1]>>]

Strategies ==
    {AlwaysLong, LongBracket, LongTrailing, ShortBracket, ShortNoStop, LongNoPositions,
     LongWarmup}

\* Backtest configurations: date range (in candle timestamps), capital and costs.
Configs ==
    { [startDate |-> 1, endDate |-> MaxCandles, initialCapital |-> 1000000,
       commissionPercent |-> 0, slippagePercent |-> 0],
      [startDate |-> 1, endDate |-> MaxCandles, initialCapital |-> 1000000,
       commissionPercent |-> 100, slippagePercent |-> 100],
      [startDate |-> 2, endDate |-> MaxCandles + 5, initialCapital |-> 1000000,
       commissionPercent |-> 100, slippagePercent |-> 0],
      [startDate |-> MaxCandles + 1, endDate |-> MaxCandles + 2, initialCapital |-> 1000000,
       commissionPercent |-> 0, slippagePercent |-> 0] }

\* Candle shapes (low, high, close), in cents.
Shapes ==
    { <<10000, 10000, 10000>>, <<11000, 11000, 11000>>, <<11000, 12000, 12000>>,
      <<10000, 12000, 11000>>,
      <<9000, 10000, 9000>>, <<8000, 9000, 8000>>, <<8000, 12000, 10000>> }

\* Candle shapes of a series whose price triples.
SpikeShapes == { <<10000, 10000, 10000>>, <<10000, 30000, 30000>> }

\* The shapes of the series the strategy is run on.
SeriesShapes == IF strategy = ShortNoStop THEN SpikeShapes ELSE Shapes

\* What the condition evaluator answers on a candle for the strategy's condition
\* groups: the entry conditions (with filters) of the long and of the short signal,
\* and exitSignals.signalExit.conditions.
Outcomes ==
    { [long |-> FALSE, short |-> FALSE, exit |-> FALSE],
      [long |-> TRUE, short |-> TRUE, exit |-> FALSE],
      [long |-> FALSE, short |-> FALSE, exit |-> TRUE] }

\* The candles a series of the given shapes may hold at a timestamp, with the
\* evaluator's answers and the ATR value computed for it.
CandlesOf(shapes, ts) ==
    { [timestamp |-> ts, low |-> s[1], high |-> s[2], close |-> s[3], cond |-> o, atr |-> 0]
        : s \in shapes, o \in Outcomes }

\* The candle the series holds at a timestamp: the one of the data argument, or any
\* candle while the series is chosen candle by candle as run() reads it.
CandlesAt(ts) == IF data = <<>> THEN CandlesOf(SeriesShapes, ts) ELSE {data[ts]}

\* Candle shapes of the series a run is repeated on.
RerunShapes == { <<10000, 10000, 10000>>, <<11000, 12000, 12000>> }

\* The series a run is repeated on: one candle per timestamp.
RerunSeries ==
    { s \in [1..MaxCandles -> UNION { CandlesOf(RerunShapes, t) : t \in 1..MaxCandles }] :
        \A t \in 1..MaxCandles : s[t].timestamp = t }

\* The states crypto's random source may be in when a run starts.
Entropies == {1, 2}

NoCandle == [timestamp |-> 0, low |-> 0, high |-> 0, close |-> 0,
             cond |-> [long |-> FALSE, short |-> FALSE, exit |-> FALSE], atr |-> 0]
NoSignal == [type |-> "none", price |-> 0, timestamp |-> 0]

\* ------------------------------------------------------- market simulator

initializePortfolio ==
    [initialCapital |-> config.initialCapital,
     currentCapital |-> config.initialCapital,
     availableCapital |-> config.initialCapital,
     equity |-> config.initialCapital,
     openPositions |-> <<>>,
     totalPnl |-> 0,
     totalCommission |-> 0]

\* MarketSimulator after construction or reset(); nextId stands for uuidv4().
NewSimulator == [portfolio |-> initializePortfolio, trades |-> <<>>, nextId |-> 1]

applySlippage(price, isBuy) ==
    LET slippage == (price * config.slippagePercent) \div 10000
    IN  IF isBuy THEN price + slippage ELSE price - slippage

calculateCommission(value) == (value * config.commissionPercent) \div 10000

calculateStopLoss(entryPrice, side, cfg, atrValue) ==
    IF cfg.type = "none" THEN 0
    ELSE IF cfg.type = "fixed_price" THEN cfg.value
    ELSE IF cfg.type \notin {"fixed_percent", "atr_multiple"} THEN 0
    ELSE LET slDistance ==
                 IF cfg.type = "fixed_percent" THEN (entryPrice * cfg.value) \div 100
                 ELSE IF Truthy(atrValue) THEN atrValue * cfg.value ELSE 0
         IN  IF side = "long" THEN entryPrice - slDistance ELSE entryPrice + slDistance

calculateTakeProfit(entryPrice, side, cfg, stopLoss, atrValue) ==
    IF cfg.type = "none" THEN 0
    ELSE IF cfg.type = "fixed_price" THEN cfg.value
    ELSE IF cfg.type \notin {"fixed_percent", "atr_multiple", "risk_reward"} THEN 0
    ELSE LET tpDistance ==
                 IF cfg.type = "fixed_percent" THEN (entryPrice * cfg.value) \div 100
                 ELSE IF cfg.type = "atr_multiple"
                      THEN (IF Truthy(atrValue) THEN atrValue * cfg.value ELSE 0)
                      ELSE (IF Truthy(stopLoss)
                            THEN Abs(entryPrice - stopLoss) * cfg.value ELSE 0)
         IN  IF side = "long" THEN entryPrice + tpDistance ELSE entryPrice - tpDistance

\* x ?? d of the code: only undefined (here -1) takes the default.
Undefined == -1
Nullish(x, d) == IF x = Undefined THEN d ELSE x

NoTrailingState ==
    [present |-> FALSE, active |-> FALSE, highestPrice |-> 0, lowestPrice |-> 0,
     currentStop |-> 0, activationPercent |-> 0, trailPercent |-> 0]

\* openPosition: [sim, opened, position]; opened = FALSE is the code's null.
openPosition(S, sig, cndl, symbol, slConfig, tpConfig, tsConfig, riskPercent, atrValue) ==
    IF sig.type # "entry_long" /\ sig.type # "entry_short"
    THEN [sim |-> S, opened |-> FALSE, position |-> NoPosition]
    ELSE
    LET side == IF sig.type = "entry_long" THEN "long" ELSE "short"
        entryPrice == applySlippage(sig.price, side = "long")
        stopLoss == calculateStopLoss(entryPrice, side, slConfig, atrValue)
        riskAmount == (S.portfolio.currentCapital * riskPercent) \div 100
        riskPerUnit == IF Truthy(stopLoss) THEN Abs(entryPrice - stopLoss)
                       ELSE (entryPrice * 2) \div 100
    IN  \* riskAmount / 0 is Infinity for riskAmount > 0: positionValue is Infinity
        \* and exceeds availableCapital
        IF riskPerUnit = 0 /\ riskAmount > 0
        THEN [sim |-> S, opened |-> FALSE, position |-> NoPosition]
        ELSE
        \* riskAmount / 0 is -Infinity for riskAmount < 0 and NaN for riskAmount = 0:
        \* positionValue > availableCapital is false and the position is opened with
        \* that size.  sizeFinite = FALSE marks it; its size and the portfolio numbers
        \* computed from it are not numbers and stand as 0 here.
        LET finite == riskPerUnit # 0
            size == IF finite THEN riskAmount \div riskPerUnit ELSE 0
            positionValue == size * entryPrice
        IN  IF finite /\ positionValue > S.portfolio.availableCapital
            THEN [sim |-> S, opened |-> FALSE, position |-> NoPosition]
            ELSE
            LET takeProfit == calculateTakeProfit(entryPrice, side, tpConfig,
                                                  stopLoss, atrValue)
                commission == calculateCommission(positionValue)
                position ==
                    [id |-> S.nextId, symbol |-> symbol, side |-> side,
                     entryPrice |-> entryPrice, size |-> size, sizeFinite |-> finite,
                     entryTime |-> cndl.timestamp,
                     stopLoss |-> stopLoss, takeProfit |-> takeProfit,
                     trailingStop |->
                         IF tsConfig.enabled
                         THEN [present |-> TRUE, active |-> FALSE,
                               highestPrice |-> IF side = "long" THEN entryPrice ELSE 0,
                               lowestPrice |-> IF side = "short" THEN entryPrice ELSE 0,
                               currentStop |-> 0,
                               activationPercent |->
                                   Nullish(tsConfig.activationPercent, 2),
                               trailPercent |-> Nullish(tsConfig.trailPercent, 1)]
                         ELSE NoTrailingState,
                     unrealizedPnl |-> 0]
            IN  [sim |-> [S EXCEPT !.portfolio.totalCommission = @ + commission,
                                   !.portfolio.openPositions = Append(@, position),
                                   !.portfolio.availableCapital = @ - positionValue,
                                   !.nextId = @ + 1],
                 opened |-> TRUE, position |-> position]

\* closePosition: the simulator afterwards; the trade returned is its last trade.
\* The trade's positionId is not a field of the code's Trade: it records which
\* position the trade closed.
closePosition(S, position, exitPrice, exitTime, exitReason) ==
    LET finalExitPrice == applySlippage(exitPrice, position.side = "short")
        priceDiff == IF position.side = "long"
                     THEN finalExitPrice - position.entryPrice
                     ELSE position.entryPrice - finalExitPrice
        pnl == priceDiff * position.size
        positionValue == position.size * finalExitPrice
        commission == calculateCommission(positionValue)
        netPnl == pnl - commission
        trade == [id |-> S.nextId, symbol |-> position.symbol, side |-> position.side,
                  entryPrice |-> position.entryPrice, exitPrice |-> finalExitPrice,
                  size |-> position.size, entryTime |-> position.entryTime,
                  exitTime |-> exitTime, pnl |-> pnl, commission |-> commission,
                  netPnl |-> netPnl, exitReason |-> exitReason,
                  holdingTime |-> exitTime - position.entryTime,
                  positionId |-> position.id]
    IN  [S EXCEPT !.portfolio.totalCommission = @ + commission,
                  !.portfolio.currentCapital = @ + netPnl,
                  !.portfolio.availableCapital = @ + positionValue,
                  !.portfolio.totalPnl = @ + netPnl,
                  !.trades = Append(@, trade),
                  !.nextId = @ + 1]

\* The exit test with take profit tested first.
triggeredExitProfitFirst(position, cndl) ==
    LET isLong == position.side = "long"
        slHit == Truthy(position.stopLoss)
                 /\ IF isLong THEN cndl.low <= position.stopLoss
                    ELSE cndl.high >= position.stopLoss
        ts == position.trailingStop
        tsHit == ts.present /\ ts.active /\ Truthy(ts.currentStop)
                 /\ IF isLong THEN cndl.low <= ts.currentStop
                    ELSE cndl.high >= ts.currentStop
        tpHit == Truthy(position.takeProfit)
                 /\ IF isLong THEN cndl.high >= position.takeProfit
                    ELSE cndl.low <= position.takeProfit
    IN  IF tpHit THEN [reason |-> "take_profit", price |-> position.takeProfit]
        ELSE IF slHit THEN [reason |-> "stop_loss", price |-> position.stopLoss]
        ELSE IF tsHit THEN [reason |-> "trailing_stop", price |-> ts.currentStop]
        ELSE [reason |-> "none", price |-> 0]

\* The exit level of the position that the candle triggers first, in the order
\* the code tests them: [reason, price], reason "none" when no level triggers.
triggeredExit(position, cndl) ==
    LET isLong == position.side = "long"
        slHit == Truthy(position.stopLoss)
                 /\ IF isLong THEN cndl.low <= position.stopLoss
                    ELSE cndl.high >= position.stopLoss
        ts == position.trailingStop
        tsHit == ts.present /\ ts.active /\ Truthy(ts.currentStop)
                 /\ IF isLong THEN cndl.low <= ts.currentStop
                    ELSE cndl.high >= ts.currentStop
        tpHit == Truthy(position.takeProfit)
                 /\ IF isLong THEN cndl.high >= position.takeProfit
                    ELSE cndl.low <= position.takeProfit
    IN  IF slHit THEN [reason |-> "stop_loss", price |-> position.stopLoss]
        ELSE IF tsHit THEN [reason |-> "trailing_stop", price |-> ts.currentStop]
        ELSE IF tpHit THEN [reason |-> "take_profit", price |-> position.takeProfit]
        ELSE [reason |-> "none", price |-> 0]

\* checkPositionExits: [sim, closed]; closed = FALSE is the code's null.
checkPositionExits(S, position, cndl) ==
    LET hit == triggeredExit(position, cndl)
    IN  IF hit.reason = "none" THEN [sim |-> S, closed |-> FALSE]
        ELSE [sim |-> closePosition(S, position, hit.price, cndl.timestamp, hit.reason),
              closed |-> TRUE]

Max(a, b) == IF a > b THEN a ELSE b
Min(a, b) == IF a < b THEN a ELSE b

\* The trailing update that follows the candle's extreme instead of the best
\* price seen so far.
updateTrailingStopLatest(position, cndl) ==
    LET ts == position.trailingStop
        activationPct == ts.activationPercent
        trailPct == ts.trailPercent
    IN  IF ~ts.present THEN position
        ELSE IF position.side = "long"
        THEN LET highest == cndl.high
                 active == ts.active
                           \/ (cndl.high - position.entryPrice) * 100
                                  >= activationPct * position.entryPrice
                 stop == IF active /\ Truthy(highest)
                         THEN Max((highest * (100 - trailPct)) \div 100, position.entryPrice)
                         ELSE ts.currentStop
             IN  [position EXCEPT !.trailingStop.highestPrice = highest,
                                  !.trailingStop.active = active,
                                  !.trailingStop.currentStop = stop]
        ELSE LET lowest == cndl.low
                 active == ts.active
                           \/ (position.entryPrice - cndl.low) * 100
                                  >= activationPct * position.entryPrice
                 stop == IF active /\ Truthy(lowest)
                         THEN Min((lowest * (100 + trailPct)) \div 100, position.entryPrice)
                         ELSE ts.currentStop
             IN  [position EXCEPT !.trailingStop.lowestPrice = lowest,
                                  !.trailingStop.active = active,
                                  !.trailingStop.currentStop = stop]

\* updateTrailingStop: the position afterwards.  profitPercent >= activationPct is
\* compared without the division: (high - entry) * 100 >= activationPct * entry.
updateTrailingStop(position, cndl) ==
    LET ts == position.trailingStop
        activationPct == ts.activationPercent
        trailPct == ts.trailPercent
    IN  IF ~ts.present THEN position
        ELSE IF position.side = "long"
        THEN LET highest == IF ~Truthy(ts.highestPrice) \/ cndl.high > ts.highestPrice
                            THEN cndl.high ELSE ts.highestPrice
                 active == ts.active
                           \/ (cndl.high - position.entryPrice) * 100
                                  >= activationPct * position.entryPrice
                 stop == IF active /\ Truthy(highest)
                         THEN Max((highest * (100 - trailPct)) \div 100, position.entryPrice)
                         ELSE ts.currentStop
             IN  [position EXCEPT !.trailingStop.highestPrice = highest,
                                  !.trailingStop.active = active,
                                  !.trailingStop.currentStop = stop]
        ELSE LET lowest == IF ~Truthy(ts.lowestPrice) \/ cndl.low < ts.lowestPrice
                           THEN cndl.low ELSE ts.lowestPrice
                 active == ts.active
                           \/ (position.entryPrice - cndl.low) * 100
                                  >= activationPct * position.entryPrice
                 stop == IF active /\ Truthy(lowest)
                         THEN Min((lowest * (100 + trailPct)) \div 100, position.entryPrice)
                         ELSE ts.currentStop
             IN  [position EXCEPT !.trailingStop.lowestPrice = lowest,
                                  !.trailingStop.active = active,
                                  !.trailingStop.currentStop = stop]

updateUnrealizedPnl(position, cndl) ==
    LET priceDiff == IF position.side = "long" THEN cndl.close - position.entryPrice
                     ELSE position.entryPrice - cndl.close
    IN  [position EXCEPT !.unrealizedPnl = priceDiff * position.size]

RECURSIVE SumUnrealized(_)
SumUnrealized(positions) ==
    IF positions = <<>> THEN 0
    ELSE Head(positions).unrealizedPnl + SumUnrealized(Tail(positions))

updateEquity(S) ==
    [S EXCEPT !.portfolio.equity =
                  S.portfolio.currentCapital + SumUnrealized(S.portfolio.openPositions)]

\* Index of the first open position with the id (findIndex), 0 for the code's -1.
findIndex(positions, id) ==
    IF \E k \in 1..Len(positions) : positions[k].id = id
    THEN CHOOSE k \in 1..Len(positions) :
             /\ positions[k].id = id
             /\ \A j \in 1..(k - 1) : positions[j].id # id
    ELSE 0

\* A closed position that stays in portfolio.openPositions.
keepPosition(S, position) == S

removePosition(S, position) ==
    LET index == findIndex(S.portfolio.openPositions, position.id)
        open == S.portfolio.openPositions
    IN  IF index # 0
        THEN [S EXCEPT !.portfolio.openPositions =
                           SubSeq(open, 1, index - 1) \o SubSeq(open, index + 1, Len(open))]
        ELSE S

\* The position object is shared by the copy and the portfolio: an update of it
\* shows in portfolio.openPositions.
storePosition(S, position) ==
    LET index == findIndex(S.portfolio.openPositions, position.id)
    IN  IF index # 0 THEN [S EXCEPT !.portfolio.openPositions[index] = position] ELSE S

\* The loop of processCandle over [...openPositions], from its k-th element on.
RECURSIVE processPositions(_, _, _, _)
processPositions(S, copy, k, cndl) ==
    IF k > Len(copy) THEN S
    ELSE LET position == copy[k]
             r == checkPositionExits(S, position, cndl)
         IN  IF r.closed
             THEN processPositions(removePosition(r.sim, position), copy, k + 1, cndl)
             ELSE processPositions(
                      storePosition(S, updateUnrealizedPnl(
                                           updateTrailingStop(position, cndl), cndl)),
                      copy, k + 1, cndl)

\* processCandle: the simulator afterwards; the trades returned are those added.
processCandle(S, cndl, symbol) ==
    updateEquity(processPositions(S, S.portfolio.openPositions, 1, cndl))

hasOpenPosition(S, symbol) ==
    \E k \in 1..Len(S.portfolio.openPositions) : S.portfolio.openPositions[k].symbol = symbol

\* getOpenPosition (find): the first open position of the symbol.
getOpenPosition(S, symbol) ==
    LET open == S.portfolio.openPositions
    IN  open[CHOOSE k \in 1..Len(open) :
                 /\ open[k].symbol = symbol
                 /\ \A j \in 1..(k - 1) : open[j].symbol # symbol]

\* ------------------------------------------------------ strategy executor

\* The executor's state.currentPosition: held = FALSE is the code's null.
NoExecutorPosition == [held |-> FALSE, id |-> 0, side |-> "none"]
HeldPosition(position) == [held |-> TRUE, id |-> position.id, side |-> position.side]

\* generateSignal for a candle, with state.currentPosition as the call reads it.
\* The signal's timestamp is Date.now().
generateSignal(cndl, currentPosition) ==
    LET hasPosition == currentPosition.held
        positionSide == currentPosition.side
    IN  IF hasPosition /\ strategy.signalExit /\ cndl.cond.exit
        THEN [type |-> IF positionSide = "long" THEN "exit_long" ELSE "exit_short",
              price |-> cndl.close, timestamp |-> clock]
        ELSE IF ~hasPosition /\ strategy.entryLong /\ cndl.cond.long
        THEN [type |-> "entry_long", price |-> cndl.close, timestamp |-> clock]
        ELSE IF ~hasPosition /\ strategy.entryShort /\ cndl.cond.short
        THEN [type |-> "entry_short", price |-> cndl.close, timestamp |-> clock]
        ELSE [type |-> "none", price |-> cndl.close, timestamp |-> clock]

\* The strategy's lookbackPeriods alone.
lookbackPeriodsOnly == strategy.lookbackPeriods

\* The loop of getRequiredPeriods over strategy.indicators, from the k-th on.
RECURSIVE maxPeriodFrom(_, _)
maxPeriodFrom(maxPeriod, k) ==
    IF k > Len(strategy.indicators) THEN maxPeriod
    ELSE maxPeriodFrom(IF strategy.indicators[k].registered
                       THEN Max(maxPeriod, strategy.indicators[k].requiredPeriods)
                       ELSE maxPeriod,
                       k + 1)

\* StrategyExecutor.getRequiredPeriods.
getRequiredPeriods == maxPeriodFrom(strategy.lookbackPeriods, 1)

\* --------------------------------------------------------- backtest engine

\* filterDataByDateRange: the timestamps of the input series (1 .. MaxCandles,
\* ascending) that lie in [startDate, endDate].
filterDataByDateRange ==
    SelectSeq([t \in 1..MaxCandles |-> t],
              LAMBDA t : t >= config.startDate /\ t <= config.endDate)

\* filteredData[k].timestamp, k counted from 0 as in the code.
TimestampAt(k) == filterDataByDateRange[k + 1]

totalCandles == Len(filterDataByDateRange)

\* A processSignal that tests the position it opens against the candle it was
\* opened on.
processSignalTestingEntry(S, execPos, sig, cndl, symbol, atrValue) ==
    LET hasPosition == hasOpenPosition(S, symbol)
        r == openPosition(S, sig, cndl, symbol, strategy.stopLoss, strategy.takeProfit,
                          strategy.trailingStop, strategy.riskPerTrade, atrValue)
    IN  IF ~hasPosition /\ r.opened
        THEN [sim |-> processCandle(r.sim, cndl, symbol),
              executorPosition |-> HeldPosition(r.position),
              hasPosition |-> hasPosition]
        ELSE [sim |-> S, executorPosition |-> execPos, hasPosition |-> hasPosition]

\* processSignal: [sim, executorPosition, hasPosition].
processSignal(S, execPos, sig, cndl, symbol, atrValue) ==
    LET hasPosition == hasOpenPosition(S, symbol)
    IN  IF hasPosition /\ (sig.type = "exit_long" \/ sig.type = "exit_short")
        THEN [sim |-> closePosition(S, getOpenPosition(S, symbol), sig.price,
                                    cndl.timestamp, "signal"),
              executorPosition |-> NoExecutorPosition,
              hasPosition |-> hasPosition]
        ELSE IF ~hasPosition /\ (sig.type = "entry_long" \/ sig.type = "entry_short")
        THEN LET r == openPosition(S, sig, cndl, symbol, strategy.stopLoss,
                                   strategy.takeProfit, strategy.trailingStop,
                                   strategy.riskPerTrade, atrValue)
             IN  [sim |-> r.sim,
                  executorPosition |-> IF r.opened THEN HeldPosition(r.position)
                                       ELSE execPos,
                  hasPosition |-> hasPosition]
        ELSE [sim |-> S, executorPosition |-> execPos, hasPosition |-> hasPosition]

\* An equity curve that gets a point only when the equity has changed.
recordEquityPointOnChange(curve, peak, S, timestamp) ==
    IF Len(curve) > 0 /\ curve[Len(curve)].equity = S.portfolio.equity
    THEN [curve |-> curve, peak |-> peak]
    ELSE [curve |-> Append(curve, [timestamp |-> timestamp, equity |-> S.portfolio.equity,
                                   drawdown |-> 0, drawdownPercent |-> 0,
                                   openPositions |-> Len(S.portfolio.openPositions)]),
          peak |-> Max(peak, S.portfolio.equity)]

\* recordEquityPoint: [curve, peak].
recordEquityPoint(curve, peak, S, timestamp) ==
    LET equity == S.portfolio.equity
        newPeak == IF equity > peak THEN equity ELSE peak
        drawdown == newPeak - equity
        drawdownPercent == (drawdown * 100) \div newPeak
    IN  [curve |-> Append(curve, [timestamp |-> timestamp, equity |-> equity,
                                  drawdown |-> drawdown,
                                  drawdownPercent |-> drawdownPercent,
                                  openPositions |-> Len(S.portfolio.openPositions)]),
         peak |-> newPeak]

\* The part of the metrics the properties below read.
calculateBacktestMetrics(trades, curve, initialCapital) ==
    IF Len(trades) = 0
    THEN [totalTrades |-> 0, initialCapital |-> initialCapital,
          finalCapital |-> initialCapital]
    ELSE [totalTrades |-> Len(trades), initialCapital |-> initialCapital,
          finalCapital |-> IF Len(curve) > 0 THEN curve[Len(curve)].equity
                           ELSE initialCapital]

NoMetrics == [totalTrades |-> 0, initialCapital |-> 0, finalCapital |-> 0]
NoResult == [status |-> "pending", error |-> "", hasMetrics |-> FALSE,
             metrics |-> NoMetrics, trades |-> <<>>, equityCurve |-> <<>>,
             totalCandles |-> 0, processedCandles |-> 0]

\* A failed result that says nothing about the failure.
createErrorResultSilent(error) ==
    [status |-> "failed", error |-> "", hasMetrics |-> FALSE, metrics |-> NoMetrics,
     trades |-> <<>>, equityCurve |-> <<>>, totalCandles |-> 0, processedCandles |-> 0]

\* BacktestEngine.createErrorResult.
createErrorResult(error) ==
    [status |-> "failed", error |-> error, hasMetrics |-> FALSE, metrics |-> NoMetrics,
     trades |-> <<>>, equityCurve |-> <<>>, totalCandles |-> 0, processedCandles |-> 0]

\* One iteration of the loop of run() up to recordEquityPoint, on the candle the
\* series holds at index i: processCandle, setPosition(symbol, null) when a trade
\* closed, processSignal, recordEquityPoint.
Iterate ==
    \E cndl \in CandlesAt(TimestampAt(i)) :
    \E afterCandle \in {processCandle(sim, cndl, Symbol)} :
    \E closed \in {Len(afterCandle.trades) - Len(sim.trades)} :
    \* executionResults[i].signal: generateSignal ran inside execute(), before the
    \* loop, and read the state.currentPosition of that time
    \E sig \in {generateSignal(cndl, executeSnapshot)} :
    \E applied \in {processSignal(afterCandle,
                                  IF closed > 0 THEN NoExecutorPosition
                                  ELSE executorPosition,
                                  sig, cndl, Symbol, cndl.atr)} :
    \E recorded \in {recordEquityPoint(equityCurve, peakEquity, applied.sim,
                                       cndl.timestamp)} :
        /\ sim' = applied.sim
        /\ executorPosition' = applied.executorPosition
        /\ equityCurve' = recorded.curve
        /\ peakEquity' = recorded.peak
        /\ candle' = cndl
        /\ signal' = sig
        /\ hadPosition' = applied.hasPosition
        /\ closedCount' = closed

\* Math.round(a / b * 100) for a >= 0, b > 0.
RoundPercent(a, b) == (2 * a * 100 + b) \div (2 * b)

\* A progress event that counts the candles still to be processed.
ProgressEventRemaining ==
    LET requiredPeriods == getRequiredPeriods
    IN  [progress |-> RoundPercent(i - requiredPeriods, totalCandles - requiredPeriods),
         processedCandles |-> totalCandles - i,
         totalCandles |-> totalCandles - requiredPeriods]

\* The progress event of iteration i.
ProgressEvent ==
    LET requiredPeriods == getRequiredPeriods
    IN  [progress |-> RoundPercent(i - requiredPeriods, totalCandles - requiredPeriods),
         processedCandles |-> i - requiredPeriods,
         totalCandles |-> totalCandles - requiredPeriods]

\* The loop reports progress when i is a multiple of this: 100 in the code.
ProgressInterval == 2

\* The end of the run without the loop over getOpenPositions().
closeNone(S, copy, k, lastCandle) == S

\* The loop of run() over getOpenPositions() after the candle loop.
RECURSIVE closeRemaining(_, _, _, _)
closeRemaining(S, copy, k, lastCandle) ==
    IF k > Len(copy) THEN S
    ELSE closeRemaining(closePosition(S, copy[k], lastCandle.close,
                                      lastCandle.timestamp, "manual"),
                        copy, k + 1, lastCandle)

\* ------------------------------------------------ market-data downloads

Symbols == {"BTCUSDT", "ETHUSDT"}

\* Candles of the requested range: estimatedTotal of downloadCandlesWithProgress.
DownloadMinutes == 2

\* No entry in the activeDownloads map.
NoDownload == [exists |-> FALSE, id |-> 0, status |-> "none", progress |-> 0,
               loaded |-> 0, total |-> 0]

\* ------------------------------------------------------------ candle cache

(***************************************************************************)
(* One symbol and one timeframe.  A timestamp is a small natural number    *)
(* and the timeframe lasts IntervalMs of them; the exchange stamps its     *)
(* candles with multiples of IntervalMs.  A candle is a timestamp with one *)
(* value, close, which stands for the five values (open, high, low, close, *)
(* volume) that the code always reads and writes together.  A document of  *)
(* the candles collection is a candle with the _id the database gave it.   *)
(***************************************************************************)

\* Timestamps are 0 .. MaxTime.
MaxTime == 5

\* Number of fetchCachedCandles calls made one after the other.
MaxFetchCalls == 2

\* Number of candles of one saveCandles call.
MaxBatch == 1

\* timeframeToMs(timeframe): 60000 for '1m' in the code.
IntervalMs == 2

\* batchSize of fetchHistoricalOHLCV: 200 in the code.
ApiBatchSize == 2

\* SAVE_BATCH_SIZE of fetchCachedCandles: 1000 in the code.
SAVE_BATCH_SIZE == 3

Timestamps == 0..MaxTime
AlignedTimestamps == {t \in Timestamps : t % IntervalMs = 0}

\* The candle the exchange has for a timestamp.
ExchangeCandle(t) == [timestamp |-> t, close |-> 100 + t]

\* What the exchange may hold: every candle of the timeframe, or all but one.
ExchangeContents ==
    {{ExchangeCandle(t) : t \in AlignedTimestamps \ gap} :
         gap \in {{}} \cup {{t} : t \in AlignedTimestamps}}

\* No document in the metadata collection.
NoMetadata == [exists |-> FALSE, firstTimestamp |-> 0, lastTimestamp |-> 0, candleCount |-> 0]

\* sort({ timestamp: 1 }) of a set of documents or candles; equal timestamps
\* come in _id order.
RECURSIVE SortByTimestamp(_)
SortByTimestamp(D) ==
    IF D = {} THEN <<>>
    ELSE LET first == CHOOSE d \in D : \A e \in D :
                          \/ d.timestamp < e.timestamp
                          \/ d.timestamp = e.timestamp /\ d.id <= e.id
         IN  <<first>> \o SortByTimestamp(D \ {first})

\* CandleCache.getCandles.
getCandles(docs, startTs, endTs) ==
    LET found == SortByTimestamp({d \in docs : d.timestamp >= startTs /\ d.timestamp <= endTs})
    IN  [k \in 1..Len(found) |-> [timestamp |-> found[k].timestamp, close |-> found[k].close]]

\* The loop of findMissingRanges and the closing of the last range; null is Undefined.
RECURSIVE MissingLoop(_, _, _, _, _, _)
MissingLoop(existingTimestamps, ts, endTs, currentRangeStart, lastTs, missingRanges) ==
    IF ts <= endTs
    THEN IF ts \notin existingTimestamps
         THEN MissingLoop(existingTimestamps, ts + IntervalMs, endTs,
                          IF currentRangeStart = Undefined THEN ts ELSE currentRangeStart,
                          ts, missingRanges)
         ELSE IF currentRangeStart # Undefined /\ lastTs # Undefined
              THEN MissingLoop(existingTimestamps, ts + IntervalMs, endTs, Undefined, Undefined,
                               Append(missingRanges, [start |-> currentRangeStart,
                                                      end |-> lastTs + IntervalMs - 1]))
              ELSE MissingLoop(existingTimestamps, ts + IntervalMs, endTs,
                               currentRangeStart, lastTs, missingRanges)
    ELSE IF currentRangeStart # Undefined /\ lastTs # Undefined
         THEN Append(missingRanges, [start |-> currentRangeStart,
                                     end |-> lastTs + IntervalMs - 1])
         ELSE missingRanges

\* CandleCache.findMissingRanges.
findMissingRanges(docs, startTs, endTs) ==
    LET existingTimestamps ==
            {d.timestamp : d \in {e \in docs : e.timestamp >= startTs /\ e.timestamp <= endTs}}
    IN  MissingLoop(existingTimestamps, startTs, endTs, Undefined, Undefined, <<>>)

\* A candles collection without an index on the key: every insert is accepted.
indexAllowsAll(docs, c) == TRUE

\* The unique index on (symbol, timeframe, timestamp): may the candle be inserted?
uniqueIndexAllows(docs, c) == \A d \in docs : d.timestamp # c.timestamp

\* No document matches the filter.
NoDocument == 0

\* The document that the filter (symbol, timeframe, timestamp) of updateOne matches.
findDocument(docs, c) ==
    IF \E d \in docs : d.timestamp = c.timestamp
    THEN (CHOOSE d \in docs : /\ d.timestamp = c.timestamp
                              /\ \A e \in docs : e.timestamp = c.timestamp => d.id <= e.id).id
    ELSE NoDocument

\* $set of the candle's values on the matched document.
updateDocument(docs, id, c) ==
    {IF d.id = id THEN [d EXCEPT !.close = c.close] ELSE d : d \in docs}

\* The insert of an upsert; the database numbers its documents.
insertDocument(docs, c) ==
    LET ids == {d.id : d \in docs}
        id == IF ids = {} THEN 1 ELSE (CHOOSE m \in ids : \A n \in ids : n <= m) + 1
    IN  docs \cup {[id |-> id, timestamp |-> c.timestamp, close |-> c.close]}

\* One updateOne with upsert: true of saveCandles, run without interference.
updateOne(docs, c) ==
    LET matched == findDocument(docs, c)
    IN  IF matched # NoDocument THEN updateDocument(docs, matched, c)
        ELSE insertDocument(docs, c)

\* bulkWrite of the operations of saveCandles, from the k-th on.
RECURSIVE bulkWrite(_, _, _)
bulkWrite(docs, candles, k) ==
    IF k > Len(candles) THEN docs
    ELSE bulkWrite(updateOne(docs, candles[k]), candles, k + 1)

\* The metadata updateOne of saveCandles: $min, $max and $inc with upsert.
updateMetadata(md, candles) ==
    LET timestamps == {candles[k].timestamp : k \in 1..Len(candles)}
        firstTs == CHOOSE t \in timestamps : \A u \in timestamps : t <= u
        lastTs == CHOOSE t \in timestamps : \A u \in timestamps : t >= u
    IN  IF md.exists
        THEN [exists |-> TRUE,
              firstTimestamp |-> Min(md.firstTimestamp, firstTs),
              lastTimestamp |-> Max(md.lastTimestamp, lastTs),
              candleCount |-> md.candleCount + Len(candles)]
        ELSE [exists |-> TRUE, firstTimestamp |-> firstTs, lastTimestamp |-> lastTs,
              candleCount |-> Len(candles)]

\* CandleCache.saveCandles run without interference; store is the two collections.
saveCandles(store, candles) ==
    IF Len(candles) = 0 THEN [store |-> store, savedCount |-> 0]
    ELSE [store |-> [docs |-> bulkWrite(store.docs, candles, 1),
                     metadata |-> updateMetadata(store.metadata, candles)],
          savedCount |-> Len(candles)]

\* BybitClient.fetchOHLCV: up to limit candles of the exchange from since on, oldest first.
RECURSIVE fetchOHLCV(_, _, _)
fetchOHLCV(ex, since, limit) ==
    LET from == {c \in ex : c.timestamp >= since}
    IN  IF limit = 0 \/ from = {} THEN <<>>
        ELSE LET first == CHOOSE c \in from : \A e \in from : c.timestamp <= e.timestamp
             IN  <<first>> \o fetchOHLCV(ex, first.timestamp + 1, limit - 1)

\* A flush that saves the buffer and does not empty it.
flushKeepingBuffer(ctx) ==
    IF Len(ctx.pendingCandles) > 0
    THEN LET saved == saveCandles(ctx.store, ctx.pendingCandles)
         IN  [ctx EXCEPT !.store = saved.store,
                         !.saveCalls = @ + 1,
                         !.savedToCache = @ + saved.savedCount,
                         !.passedToSave = @ \o ctx.pendingCandles]
    ELSE ctx

\* flushPendingCandles of fetchCachedCandles; ctx is what its callbacks close over.
\* ctx.saveFailsAt numbers the saveCandles call of this fetch that rejects (0: none),
\* before it has written anything; ctx.thrown says an exception is on its way out.
\* ctx.passedToSave and ctx.delivered are not in the code: the candles handed to the
\* saveCandles calls that returned, and the candles fetchHistoricalOHLCV returned.
flushPendingCandles(ctx) ==
    IF Len(ctx.pendingCandles) > 0
    THEN IF ctx.saveCalls + 1 = ctx.saveFailsAt
         THEN [ctx EXCEPT !.saveCalls = @ + 1, !.thrown = TRUE]
         ELSE LET saved == saveCandles(ctx.store, ctx.pendingCandles)
              IN  [ctx EXCEPT !.store = saved.store,
                              !.saveCalls = @ + 1,
                              !.savedToCache = @ + saved.savedCount,
                              !.passedToSave = @ \o ctx.pendingCandles,
                              !.pendingCandles = <<>>]
    ELSE ctx

\* The onBatch callback that fetchCachedCandles hands to fetchHistoricalOHLCV.
onBatch(ctx, batchCandles) ==
    LET pushed == [ctx EXCEPT !.pendingCandles = @ \o batchCandles,
                              !.fromApi = @ + Len(batchCandles)]
    IN  IF Len(pushed.pendingCandles) >= SAVE_BATCH_SIZE THEN flushPendingCandles(pushed)
        ELSE pushed

InRange(c, since, endTimestamp) == c.timestamp >= since /\ c.timestamp < endTimestamp

\* BybitClient.fetchHistoricalOHLCV from the cursor since on; hasOnBatch tells whether
\* the caller passed onBatch.
RECURSIVE fetchHistoricalOHLCV(_, _, _, _, _, _)
fetchHistoricalOHLCV(ex, since, endTimestamp, allData, ctx, hasOnBatch) ==
    IF since < endTimestamp
    THEN LET batch == fetchOHLCV(ex, since, ApiBatchSize)
         IN  IF Len(batch) = 0 THEN [allData |-> allData, ctx |-> ctx]
             ELSE LET filtered == SelectSeq(batch, LAMBDA c : InRange(c, since, endTimestamp))
                      called == IF hasOnBatch /\ Len(filtered) > 0
                                THEN onBatch(ctx, filtered) ELSE ctx
                  IN  IF hasOnBatch /\ called.thrown
                      THEN [allData |-> allData \o filtered, ctx |-> called]
                      ELSE fetchHistoricalOHLCV(
                               ex, batch[Len(batch)].timestamp + IntervalMs, endTimestamp,
                               allData \o filtered, called, hasOnBatch)
    ELSE [allData |-> allData, ctx |-> ctx]

\* The loop of fetchCachedCandles over the missing ranges, from the k-th on.
RECURSIVE fetchRanges(_, _, _, _)
fetchRanges(ex, missingRanges, k, ctx) ==
    IF k > Len(missingRanges) \/ ctx.thrown THEN ctx
    ELSE LET fetched == fetchHistoricalOHLCV(ex, missingRanges[k].start,
                                             missingRanges[k].end, <<>>, ctx, TRUE)
         IN  fetchRanges(ex, missingRanges, k + 1,
                         [fetched.ctx EXCEPT !.delivered = @ \o fetched.allData])

\* fetchCachedCandles: what it returns or that it rejects, the cache it leaves behind
\* and the number of saveCandles calls it made.
fetchCachedCandles(store, ex, startDate, endDate, cacheAvailable, saveFailsAt) ==
    IF cacheAvailable
    THEN LET cachedCandles == getCandles(store.docs, startDate, endDate)
             missingRanges == findMissingRanges(store.docs, startDate, endDate)
         IN  IF Len(missingRanges) = 0
             THEN [rejected |-> FALSE, candles |-> cachedCandles,
                   stats |-> [fromCache |-> Len(cachedCandles), fromApi |-> 0,
                              savedToCache |-> 0],
                   store |-> store, saveCalls |-> 0,
                   delivered |-> <<>>, passedToSave |-> <<>>, pending |-> <<>>]
             ELSE LET fetched == fetchRanges(ex, missingRanges, 1,
                                     [store |-> store, pendingCandles |-> <<>>,
                                      fromApi |-> 0, savedToCache |-> 0, saveCalls |-> 0,
                                      saveFailsAt |-> saveFailsAt, thrown |-> FALSE,
                                      passedToSave |-> <<>>, delivered |-> <<>>])
                      flushed == IF fetched.thrown THEN fetched
                                 ELSE flushPendingCandles(fetched)
                  IN  IF flushed.thrown
                      THEN [rejected |-> TRUE, candles |-> <<>>,
                            stats |-> [fromCache |-> Len(cachedCandles),
                                       fromApi |-> flushed.fromApi,
                                       savedToCache |-> flushed.savedToCache],
                            store |-> flushed.store, saveCalls |-> flushed.saveCalls,
                            delivered |-> flushed.delivered,
                            passedToSave |-> flushed.passedToSave,
                            pending |-> flushed.pendingCandles]
                      ELSE [rejected |-> FALSE,
                            candles |-> getCandles(flushed.store.docs, startDate, endDate),
                            stats |-> [fromCache |-> Len(cachedCandles),
                                       fromApi |-> flushed.fromApi,
                                       savedToCache |-> flushed.savedToCache],
                            store |-> flushed.store, saveCalls |-> flushed.saveCalls,
                            delivered |-> flushed.delivered,
                            passedToSave |-> flushed.passedToSave,
                            pending |-> flushed.pendingCandles]
    ELSE LET candles == fetchHistoricalOHLCV(ex, startDate, endDate, <<>>,
                                             [store |-> store, thrown |-> FALSE],
                                             FALSE).allData
         IN  [rejected |-> FALSE, candles |-> candles,
              stats |-> [fromCache |-> 0, fromApi |-> Len(candles), savedToCache |-> 0],
              store |-> store, saveCalls |-> 0,
              delivered |-> candles, passedToSave |-> <<>>, pending |-> <<>>]

\* A writer that has not called saveCandles; wrote is the candles whose updateOne it
\* has had applied.
IdleWriter == [pc |-> "idle", candles |-> <<>>, k |-> 0, matched |-> NoDocument, calls |-> 0,
               wrote |-> {}]

\* No window has been looked at.
NoProbe == [startTs |-> Undefined, endTs |-> Undefined, missingRanges |-> <<>>, candles |-> <<>>]

\* The writers that call saveCandles concurrently.
Writers == {1, 2}

\* Number of saveCandles calls of one writer.
MaxSaveCalls == 2

\* The candle that a writer saves for a timestamp: writers disagree on the values.
WriterCandle(w, t) == [timestamp |-> t, close |-> 100 * w + t]

\* Candles in timestamp order.
RECURSIVE Ascending(_)
Ascending(S) ==
    IF S = {} THEN <<>>
    ELSE LET first == CHOOSE c \in S : \A e \in S : c.timestamp <= e.timestamp
         IN  <<first>> \o Ascending(S \ {first})

\* The candles arguments of saveCandles: the writer's candles of any of the first
\* MaxBatch timestamps of the timeframe, oldest first as the exchange delivers them.
Batches(w) ==
    {Ascending({WriterCandle(w, t) : t \in T}) :
         T \in SUBSET {t \in AlignedTimestamps : t < MaxBatch * IntervalMs}}

\* The two collections after the candles S were saved into an empty cache.
StoreOf(S) == saveCandles([docs |-> {}, metadata |-> NoMetadata], Ascending(S)).store

\* The cache is empty and unused.
CacheIdle ==
    /\ exchange = {}
    /\ candleDocs = {}
    /\ metadata = NoMetadata
    /\ fetchCalls = <<>>
    /\ probe = NoProbe
    /\ writers = [w \in Writers |-> IdleWriter]

\* ------------------------------------------------------ strategies service

\* A version string MAJOR.MINOR.PATCH, as the three numbers split('.') and parseInt
\* read from it and join('.') writes back.
Version(major, minor, patch) == <<major, minor, patch>>

\* What a StrategySchema holds besides the fields an update may replace as a whole:
\* id, version and name.
Schema(id, version, name) == [id |-> id, version |-> version, name |-> name]

\* The StoredStrategy of a schema just stored: one version record.
Stored(schema) ==
    [id |-> schema.id, schema |-> schema,
     versions |-> <<[version |-> schema.version, schema |-> schema]>>]

\* createSampleStrategy and createSimpleTestStrategy: the map after construction.
SampleStrategies ==
    [id \in {"pivot-smma-v3", "sma-crossover-rsi"} |->
        IF id = "pivot-smma-v3"
        THEN Stored(Schema(id, Version(4, 1, 0), "Pivot SMMA v4"))
        ELSE Stored(Schema(id, Version(1, 0, 0), "SMA Crossover + RSI"))]

\* The ids uuidv4() gives to created strategies.
CreatedIds == {"created"}

\* The callers of update(), and the number of calls each makes.
Updaters == {1, 2}
MaxUpdates == 2

\* dto.schema.name of a create or update call; NoName when the dto has none.
NoName == "undefined"
DtoNames == {NoName, "renamed"}

\* The ids update() is called with.
StrategyIds == {"sma-crossover-rsi"} \cup CreatedIds

\* An update() caller between calls.  calls counts the calls it has made; returned is
\* not in the code: it counts, per id, the calls that have returned a strategy.
IdleUpdate ==
    [pc |-> "idle", id |-> "", name |-> NoName, existing |-> <<>>, calls |-> 0,
     returned |-> [id \in StrategyIds |-> 0]]

\* ------------------------------------------------ higher-timeframe indicators

\* calculateAllIndicators has not been called.
NoMapping == [called |-> FALSE]

\* No earlier run on the same inputs has returned.
NoRun == [returned |-> FALSE, trades |-> <<>>, equityCurve |-> <<>>]

\* A map without keys.
EmptyMap == [k \in {} |-> 0]

\* No fetchHistoricalOHLCV, evaluateCondition or aggregateOHLCV call has been made.
NoPaging == [state |-> "idle"]
NoEvaluation == [called |-> FALSE]
NoAggregation == [called |-> FALSE]

\* The engine is run once on a series chosen candle by candle, and the API services
\* have received no call.
ApiIdle ==
    /\ data = <<>>
    /\ entropy = 0
    /\ firstRun = NoRun
    /\ clock = 0
    /\ backtests = EmptyMap
    /\ progressSubjects = {}
    /\ executions = <<>>
    /\ strategies = SampleStrategies
    /\ updates = [u \in Updaters |-> IdleUpdate]
    /\ mapped = NoMapping
    /\ paging = NoPaging
    /\ evaluated = NoEvaluation
    /\ aggregated = NoAggregation

\* The engine before run() and the download service before any request.
RunInit ==
    /\ pc = "start"
    /\ i = 0
    /\ sim = NewSimulator
    /\ equityCurve = <<>>
    /\ peakEquity = 0
    /\ executorPosition = NoExecutorPosition
    /\ executeSnapshot = NoExecutorPosition
    /\ candle = NoCandle
    /\ signal = NoSignal
    /\ hadPosition = FALSE
    /\ closedCount = 0
    /\ onProgress = "unread"
    /\ progressEvents = <<>>
    /\ result = NoResult
    /\ cancelRequested = FALSE
    /\ cancelledBefore = -1
    /\ activeDownloads = [s \in Symbols |-> NoDownload]
    /\ fetches = {}
    /\ requests = 0

Init ==
    /\ strategy \in Strategies
    /\ config \in Configs
    /\ RunInit
    /\ CacheIdle
    /\ ApiIdle

\* run(): the series clipped to the date range is empty.
RunNoData ==
    /\ pc = "start"
    /\ totalCandles = 0
    /\ result' = createErrorResult("No data available for the specified date range")
    /\ pc' = "done"
    /\ UNCHANGED <<strategy, config, i, sim, equityCurve, peakEquity, executorPosition,
                   executeSnapshot, candle, signal, hadPosition, closedCount, onProgress,
                   progressEvents, cancelRequested, cancelledBefore, serviceVars>>

\* run(): fewer candles than the strategy's warmup.
RunInsufficientData ==
    /\ pc = "start"
    /\ totalCandles # 0
    /\ totalCandles < getRequiredPeriods
    /\ result' = createErrorResult("Insufficient data")
    /\ pc' = "done"
    /\ UNCHANGED <<strategy, config, i, sim, equityCurve, peakEquity, executorPosition,
                   executeSnapshot, candle, signal, hadPosition, closedCount, onProgress,
                   progressEvents, cancelRequested, cancelledBefore, serviceVars>>

\* run() up to the loop: reset(), peakEquity, and executor.execute(), which starts
\* with initializeState(symbol) and generates the signal of every candle.
RunStart ==
    /\ pc = "start"
    /\ totalCandles # 0
    /\ totalCandles >= getRequiredPeriods
    /\ equityCurve' = <<>>
    /\ sim' = NewSimulator
    /\ peakEquity' = config.initialCapital
    /\ executorPosition' = NoExecutorPosition
    /\ executeSnapshot' = executorPosition'
    /\ i' = getRequiredPeriods
    /\ pc' = "loop"
    /\ UNCHANGED <<strategy, config, candle, signal, hadPosition, closedCount, onProgress,
                   progressEvents, result, cancelRequested, cancelledBefore, serviceVars>>

\* One iteration of the loop; the progress callback, when it is called, returns.
LoopStep ==
    /\ pc = "loop"
    /\ i < totalCandles
    /\ Iterate
    /\ \/ /\ i % ProgressInterval = 0
          /\ onProgress \in {"unread", "supplied"}
          /\ onProgress' = "supplied"
          /\ progressEvents' = Append(progressEvents, ProgressEvent)
       \/ /\ i % ProgressInterval = 0
          /\ onProgress \in {"unread", "none"}
          /\ onProgress' = "none"
          /\ UNCHANGED progressEvents
       \/ /\ i % ProgressInterval # 0
          /\ UNCHANGED <<onProgress, progressEvents>>
    /\ i' = i + 1
    /\ UNCHANGED <<strategy, config, pc, executeSnapshot, result, cancelRequested,
                   cancelledBefore, serviceVars>>

\* One iteration of the loop in which the progress callback throws: run() has no
\* handler, the error leaves run() and its promise rejects.
LoopThrow ==
    /\ pc = "loop"
    /\ i < totalCandles
    /\ i % ProgressInterval = 0
    /\ onProgress \in {"unread", "supplied"}
    /\ Iterate
    /\ onProgress' = "supplied"
    /\ pc' = "rejected"
    /\ UNCHANGED <<strategy, config, i, executeSnapshot, progressEvents, result,
                   cancelRequested, cancelledBefore, serviceVars>>

\* run() after the loop: force-close, metrics, the completed result.
Finish ==
    /\ pc = "loop"
    /\ i >= totalCandles
    /\ \E lastCandle \in CandlesAt(TimestampAt(totalCandles - 1)) :
       \E closedAll \in {closeRemaining(sim, sim.portfolio.openPositions, 1, lastCandle)} :
         /\ i > getRequiredPeriods => lastCandle = candle
         /\ sim' = closedAll
         /\ result' = [status |-> "completed", error |-> "", hasMetrics |-> TRUE,
                       metrics |-> calculateBacktestMetrics(closedAll.trades, equityCurve,
                                                            config.initialCapital),
                       trades |-> closedAll.trades,
                       equityCurve |-> equityCurve,
                       totalCandles |-> totalCandles,
                       processedCandles |-> totalCandles - getRequiredPeriods]
    /\ pc' = "done"
    /\ UNCHANGED <<strategy, config, i, equityCurve, peakEquity, executorPosition,
                   executeSnapshot, candle, signal, hadPosition, closedCount, onProgress,
                   progressEvents, cancelRequested, cancelledBefore, serviceVars>>

Next ==
    \/ RunNoData
    \/ RunInsufficientData
    \/ RunStart
    \/ LoopStep
    \/ LoopThrow
    \/ Finish

Spec == Init /\ [][Next]_vars

\* The caller sets its cancellation signal while a candle is still to be processed.
\* run() takes (data, symbol, onProgress): it has no parameter for the signal and
\* never reads it.
RequestCancel ==
    /\ pc = "loop"
    /\ i < totalCandles
    /\ ~cancelRequested
    /\ cancelRequested' = TRUE
    /\ cancelledBefore' = i
    /\ UNCHANGED <<strategy, config, pc, i, sim, equityCurve, peakEquity, executorPosition,
                   executeSnapshot, candle, signal, hadPosition, closedCount, onProgress,
                   progressEvents, result, serviceVars>>

CancelNext ==
    \/ Next
    \/ RequestCancel

CancelSpec == Init /\ [][CancelNext]_vars

\* ------------------------------------------------------------ repeated runs

\* uuidv4(): what randomUUID() returns on the n-th call of a run, given the state
\* the random source was in when the run started.
uuidv4(seed, n) == <<seed, n>>

\* The Trade objects of a run, each with the id uuidv4() gave it.
TradesOf(seed, trades) ==
    [k \in 1..Len(trades) |->
        [id |-> uuidv4(seed, trades[k].id), symbol |-> trades[k].symbol,
         side |-> trades[k].side, entryPrice |-> trades[k].entryPrice,
         exitPrice |-> trades[k].exitPrice, size |-> trades[k].size,
         entryTime |-> trades[k].entryTime, exitTime |-> trades[k].exitTime,
         pnl |-> trades[k].pnl, commission |-> trades[k].commission,
         netPnl |-> trades[k].netPnl, exitReason |-> trades[k].exitReason,
         holdingTime |-> trades[k].holdingTime]]

\* run() has returned; a new engine is constructed for the same strategy and config
\* and is about to be run on the same series.
RunAgain ==
    /\ pc = "done"
    /\ ~firstRun.returned
    /\ firstRun' = [returned |-> TRUE, trades |-> TradesOf(entropy, result.trades),
                    equityCurve |-> result.equityCurve]
    /\ entropy' \in Entropies
    /\ pc' = "start"
    /\ i' = 0
    /\ sim' = NewSimulator
    /\ equityCurve' = <<>>
    /\ peakEquity' = 0
    /\ executorPosition' = NoExecutorPosition
    /\ executeSnapshot' = NoExecutorPosition
    /\ candle' = NoCandle
    /\ signal' = NoSignal
    /\ hadPosition' = FALSE
    /\ closedCount' = 0
    /\ onProgress' = "unread"
    /\ progressEvents' = <<>>
    /\ result' = NoResult
    /\ UNCHANGED <<strategy, config, cancelRequested, cancelledBefore, data,
                   downloadVars, cacheVars, backtestVars, strategyVars, mapped, libVars>>

RerunInit ==
    /\ strategy \in Strategies
    /\ config \in Configs
    /\ RunInit
    /\ CacheIdle
    /\ data \in RerunSeries
    /\ entropy \in Entropies
    /\ firstRun = NoRun
    /\ clock = 0
    /\ backtests = EmptyMap
    /\ progressSubjects = {}
    /\ executions = <<>>
    /\ strategies = SampleStrategies
    /\ updates = [u \in Updaters |-> IdleUpdate]
    /\ mapped = NoMapping
    /\ paging = NoPaging
    /\ evaluated = NoEvaluation
    /\ aggregated = NoAggregation

RerunNext ==
    \/ Next
    \/ RunAgain

RerunSpec == RerunInit /\ [][RerunNext]_vars

\* ------------------------------------------------------------ signal times

\* The engine is run after the last candle of the series has closed: the clock is
\* past every candle timestamp.
SignalInit ==
    /\ strategy \in Strategies
    /\ config \in Configs
    /\ RunInit
    /\ CacheIdle
    /\ data = <<>>
    /\ entropy = 0
    /\ firstRun = NoRun
    /\ clock = MaxCandles + 1
    /\ backtests = EmptyMap
    /\ progressSubjects = {}
    /\ executions = <<>>
    /\ strategies = SampleStrategies
    /\ updates = [u \in Updaters |-> IdleUpdate]
    /\ mapped = NoMapping
    /\ paging = NoPaging
    /\ evaluated = NoEvaluation
    /\ aggregated = NoAggregation

SignalSpec == SignalInit /\ [][Next]_vars

\* ---------------------------------------------------------- backtest service

\* Number of run() calls the backtest service receives, and the last millisecond
\* the clock reaches.
MaxRuns == 3
MaxClock == 2

\* `bt-${Date.now()}`.
BacktestId(now) == <<"bt", now>>

\* Map.set(key, value).
MapSet(map, key, value) ==
    [k \in DOMAIN map \cup {key} |-> IF k = key THEN value ELSE map[k]]

\* What engine.run() of a service run returns: the statuses of a BacktestResult.
RunStatuses == {"completed", "failed"}

\* Every engine and every service is idle.
ServicesIdle ==
    /\ strategy = AlwaysLong
    /\ config \in {c \in Configs : c.startDate = 1 /\ c.commissionPercent = 0}
    /\ RunInit
    /\ CacheIdle
    /\ ApiIdle

\* run(dto) from the point where the market data has been loaded: the backtest id
\* is taken from the clock, the progress subject is registered under it and
\* executeBacktest is started without being awaited.
ServiceRun ==
    /\ Len(executions) < MaxRuns
    /\ \E backtestId \in {BacktestId(clock)} :
         /\ progressSubjects' = progressSubjects \cup {backtestId}
         /\ executions' = Append(executions, [backtestId |-> backtestId, pc |-> "running"])
    /\ UNCHANGED <<engineVars, downloadVars, cacheVars, rerunVars, clock, backtests,
                   strategyVars, mapped, libVars>>

\* executeBacktest after engine.run() resolved: the result of the run's own engine
\* gets the backtest id and is stored under it, and the progress subject is removed.
\* The field run is not in the code: it names the run whose engine made the result.
ExecuteStore(n) ==
    /\ executions[n].pc = "running"
    /\ \E status \in RunStatuses :
         backtests' = MapSet(backtests, executions[n].backtestId,
                             [result |-> [id |-> executions[n].backtestId,
                                          status |-> status, run |-> n]])
    /\ progressSubjects' = progressSubjects \ {executions[n].backtestId}
    /\ executions' = [executions EXCEPT ![n].pc = "stored"]
    /\ UNCHANGED <<engineVars, downloadVars, cacheVars, rerunVars, clock, strategyVars,
                   mapped, libVars>>

\* executeBacktest after engine.run() rejected: a failed result is stored under the
\* backtest id, and the progress subject is removed.
ExecuteCatch(n) ==
    /\ executions[n].pc = "running"
    /\ backtests' = MapSet(backtests, executions[n].backtestId,
                           [result |-> [id |-> executions[n].backtestId,
                                        status |-> "failed", run |-> n]])
    /\ progressSubjects' = progressSubjects \ {executions[n].backtestId}
    /\ executions' = [executions EXCEPT ![n].pc = "caught"]
    /\ UNCHANGED <<engineVars, downloadVars, cacheVars, rerunVars, clock, strategyVars,
                   mapped, libVars>>

\* A millisecond passes.
Tick ==
    /\ clock < MaxClock
    /\ clock' = clock + 1
    /\ UNCHANGED <<engineVars, downloadVars, cacheVars, rerunVars, backtests,
                   progressSubjects, executions, strategyVars, mapped, libVars>>

BacktestNext ==
    \/ ServiceRun
    \/ \E n \in 1..Len(executions) : ExecuteStore(n)
    \/ \E n \in 1..Len(executions) : ExecuteCatch(n)
    \/ Tick

BacktestSpec == ServicesIdle /\ [][BacktestNext]_vars

\* -------------------------------------------------------- strategies service

\* create(dto): the schema gets a new id and version 1.0.0 and is stored with one
\* version record.
Create(name) ==
    /\ \E id \in CreatedIds \ DOMAIN strategies :
         strategies' = MapSet(strategies, id,
                              Stored(Schema(id, Version(1, 0, 0),
                                            IF name = NoName THEN "Unnamed Strategy"
                                            ELSE name)))
    /\ UNCHANGED <<engineVars, downloadVars, cacheVars, rerunVars, backtestVars, updates,
                   mapped, libVars>>

\* update(id, dto) up to its await: findOne(id) has read the stored strategy.
UpdateFind(u, id, name) ==
    /\ updates[u].pc = "idle"
    /\ updates[u].calls < MaxUpdates
    /\ id \in DOMAIN strategies
    /\ updates' = [updates EXCEPT ![u].pc = "awaiting", ![u].id = id, ![u].name = name,
                                  ![u].existing = strategies[id], ![u].calls = @ + 1]
    /\ UNCHANGED <<engineVars, downloadVars, cacheVars, rerunVars, backtestVars, strategies,
                   mapped, libVars>>

\* update(id, dto) of an id that is not stored: findOne throws NotFoundException.
UpdateNotFound(u, id) ==
    /\ updates[u].pc = "idle"
    /\ updates[u].calls < MaxUpdates
    /\ id \notin DOMAIN strategies
    /\ updates' = [updates EXCEPT ![u].calls = @ + 1]
    /\ UNCHANGED <<engineVars, downloadVars, cacheVars, rerunVars, backtestVars, strategies,
                   mapped, libVars>>

\* update(id, dto) after its await: the patch number of the version that findOne
\* read is increased, the new schema is appended to the versions that findOne read,
\* and the result is stored.
UpdateWrite(u) ==
    /\ updates[u].pc = "awaiting"
    /\ \E existing \in {updates[u].existing} :
       \E newVersion \in {[existing.schema.version EXCEPT ![3] = @ + 1]} :
       \E updatedSchema \in {Schema(updates[u].id, newVersion,
                                     IF updates[u].name = NoName THEN existing.schema.name
                                     ELSE updates[u].name)} :
         strategies' = MapSet(strategies, updates[u].id,
                              [existing EXCEPT
                                 !.schema = updatedSchema,
                                 !.versions = Append(@, [version |-> newVersion,
                                                         schema |-> updatedSchema])])
    /\ updates' = [updates EXCEPT ![u].pc = "idle",
                                  ![u].returned[updates[u].id] = @ + 1]
    /\ UNCHANGED <<engineVars, downloadVars, cacheVars, rerunVars, backtestVars,
                   mapped, libVars>>

StrategiesNext ==
    \/ \E name \in DtoNames : Create(name)
    \/ \E u \in Updaters, id \in StrategyIds, name \in DtoNames : UpdateFind(u, id, name)
    \/ \E u \in Updaters, id \in StrategyIds : UpdateNotFound(u, id)
    \/ \E u \in Updaters : UpdateWrite(u)

StrategiesSpec == ServicesIdle /\ [][StrategiesNext]_vars

\* ------------------------------------------------ higher-timeframe indicators

\* null of an IndicatorResult.
Null == Undefined

\* The primary timeframe has a candle per timestamp, the higher timeframe one per
\* IntervalMs timestamps.
PrimaryCandle(t) == [timestamp |-> t, close |-> 10 + 2 * t]

\* The data argument of execute(): the primary candles of a range of timestamps.
PrimarySeries ==
    { [k \in 1..(to - from + 1) |-> PrimaryCandle(from + k - 1)] :
        from \in Timestamps, to \in Timestamps } \ {<<>>}

\* The higher-timeframe series: candles at aligned timestamps, oldest first.
HtfSeries == { Ascending({ExchangeCandle(t) : t \in T}) : T \in SUBSET AlignedTimestamps }

\* The period parameters of the indicator.
Periods == {1, 2}

\* Sum of the closes of candles[k - n + 1 .. k].
RECURSIVE SumCloses(_, _, _)
SumCloses(candles, k, n) ==
    IF n = 0 THEN 0 ELSE candles[k].close + SumCloses(candles, k - 1, n - 1)

\* SMAIndicator.calculate with source 'close': null during the first period - 1
\* candles, then the mean of the last period closes.
calculate(candles, period) ==
    [k \in 1..Len(candles) |->
        IF k - 1 < period - 1 THEN Null ELSE SumCloses(candles, k, period) \div period]

\* The while loop of buildHigherTfIndex: htfIndex (counted from 0) afterwards.
RECURSIVE AdvanceHtfIndex(_, _, _)
AdvanceHtfIndex(higherTfData, htfIndex, previousCandleStart) ==
    IF /\ htfIndex < Len(higherTfData) - 1
       /\ higherTfData[htfIndex + 2].timestamp <= previousCandleStart
    THEN AdvanceHtfIndex(higherTfData, htfIndex + 1, previousCandleStart)
    ELSE htfIndex

\* The for loop of buildHigherTfIndex from primary candle k on.  A null entry of the
\* result is the empty sequence, a candle is the sequence holding it.
RECURSIVE BuildIndexFrom(_, _, _, _, _)
BuildIndexFrom(primaryData, higherTfData, k, htfIndex, built) ==
    IF k > Len(primaryData) THEN built
    ELSE LET tfMs == IntervalMs
             previousCandleStart == (primaryData[k].timestamp \div tfMs) * tfMs - tfMs
             advanced == AdvanceHtfIndex(higherTfData, htfIndex, previousCandleStart)
             entry == IF /\ advanced < Len(higherTfData)
                         /\ higherTfData[advanced + 1].timestamp <= previousCandleStart
                      THEN <<higherTfData[advanced + 1]>>
                      ELSE <<>>
         IN  BuildIndexFrom(primaryData, higherTfData, k + 1, advanced, Append(built, entry))

buildHigherTfIndex(primaryData, higherTfData) ==
    BuildIndexFrom(primaryData, higherTfData, 1, 0, <<>>)

\* htfData.findIndex(c => c.timestamp === ...), counted from 1; 0 when nothing is found.
findIndexByTimestamp(candles, timestamp) ==
    IF \E k \in 1..Len(candles) : candles[k].timestamp = timestamp
    THEN CHOOSE k \in 1..Len(candles) :
             /\ candles[k].timestamp = timestamp
             /\ \A j \in 1..(k - 1) : candles[j].timestamp # timestamp
    ELSE 0

\* calculateAllIndicators for one indicator declared on the higher timeframe: its
\* values per primary candle.  hasMultiTfData says whether execute() was given the
\* multiTfData argument, htfData is what that map holds for the timeframe.
calculateAllIndicators(primaryData, hasMultiTfData, htfData, period) ==
    IF hasMultiTfData
    THEN IF Len(htfData) = 0
         THEN [k \in 1..Len(primaryData) |-> Null]
         ELSE LET htfValues == calculate(htfData, period)
                  htfIndex == buildHigherTfIndex(primaryData, htfData)
              IN  [k \in 1..Len(primaryData) |->
                      IF htfIndex[k] # <<>>
                      THEN LET htfCandleIndex == findIndexByTimestamp(htfData, htfIndex[k][1].timestamp)
                           IN  IF htfCandleIndex >= 1 /\ htfCandleIndex <= Len(htfValues)
                               THEN htfValues[htfCandleIndex]
                               ELSE Null
                      ELSE Null]
    ELSE calculate(primaryData, period)

\* execute(data, symbol, multiTfData) of a strategy with one indicator on the higher
\* timeframe, the map holding htfData for that timeframe.
ExecuteWithHtfData(primaryData, htfData, period) ==
    /\ \E values \in {calculateAllIndicators(primaryData, TRUE, htfData, period)} :
         mapped' = [called |-> TRUE, inEngine |-> FALSE, data |-> primaryData,
                    htfData |-> htfData, period |-> period, values |-> values]
    /\ UNCHANGED <<engineVars, downloadVars, cacheVars, rerunVars, backtestVars,
                   strategyVars, libVars>>

\* BacktestEngine.run of such a strategy: it calls execute(filteredData, symbol).
\* htfData is the market's higher-timeframe series, which the engine is not given.
ExecuteInEngine(primaryData, htfData, period) ==
    /\ \E values \in {calculateAllIndicators(primaryData, FALSE, <<>>, period)} :
         mapped' = [called |-> TRUE, inEngine |-> TRUE, data |-> primaryData,
                    htfData |-> htfData, period |-> period, values |-> values]
    /\ UNCHANGED <<engineVars, downloadVars, cacheVars, rerunVars, backtestVars,
                   strategyVars, libVars>>

HtfNext ==
    \/ \E primaryData \in PrimarySeries, htfData \in HtfSeries, period \in Periods :
          ExecuteWithHtfData(primaryData, htfData, period)
    \/ \E primaryData \in PrimarySeries, htfData \in HtfSeries, period \in Periods :
          ExecuteInEngine(primaryData, htfData, period)

HtfSpec == ServicesIdle /\ [][HtfNext]_vars

\* Number of fetchOHLCV requests of one fetchHistoricalOHLCV call.
MaxPages == 3

\* What the exchange may answer to one fetchOHLCV request: up to ApiBatchSize candles
\* of the timeframe, whatever since was, in any order; or nothing.
AnyBatches ==
    UNION {[1..n -> {ExchangeCandle(t) : t \in AlignedTimestamps}] : n \in 1..ApiBatchSize}

\* fetchHistoricalOHLCV up to its loop: since and endTimestamp are set.
PagingCall(startDate, endDate) ==
    /\ paging.state = "idle"
    /\ paging' = [state |-> "loop", since |-> startDate, endTimestamp |-> endDate,
                  allData |-> <<>>, requests |-> 0, batch |-> <<>>]
    /\ UNCHANGED <<engineVars, downloadVars, cacheVars, rerunVars, backtestVars,
                   strategyVars, mapped, evaluated, aggregated>>

\* One iteration of the loop in which fetchOHLCV answers with the non-empty batch.
PagingRequest(batch) ==
    /\ paging.state = "loop"
    /\ paging.since < paging.endTimestamp
    /\ paging.requests < MaxPages
    /\ \E filtered \in {SelectSeq(batch, LAMBDA c :
                                        InRange(c, paging.since, paging.endTimestamp))} :
         paging' = [paging EXCEPT !.allData = @ \o filtered,
                                  !.since = batch[Len(batch)].timestamp + IntervalMs,
                                  !.requests = @ + 1,
                                  !.batch = batch]
    /\ UNCHANGED <<engineVars, downloadVars, cacheVars, rerunVars, backtestVars,
                   strategyVars, mapped, evaluated, aggregated>>

\* The iteration in which fetchOHLCV answers with no candle: break, return allData.
PagingBreak ==
    /\ paging.state = "loop"
    /\ paging.since < paging.endTimestamp
    /\ paging.requests < MaxPages
    /\ paging' = [paging EXCEPT !.state = "returned", !.requests = @ + 1, !.batch = <<>>]
    /\ UNCHANGED <<engineVars, downloadVars, cacheVars, rerunVars, backtestVars,
                   strategyVars, mapped, evaluated, aggregated>>

\* The loop condition fails: return allData.
PagingReturn ==
    /\ paging.state = "loop"
    /\ paging.since >= paging.endTimestamp
    /\ paging' = [paging EXCEPT !.state = "returned"]
    /\ UNCHANGED <<engineVars, downloadVars, cacheVars, rerunVars, backtestVars,
                   strategyVars, mapped, evaluated, aggregated>>

PagingNext ==
    \/ \E startDate \in Timestamps, endDate \in Timestamps : PagingCall(startDate, endDate)
    \/ \E batch \in AnyBatches : PagingRequest(batch)
    \/ PagingBreak
    \/ PagingReturn

PagingSpec == ServicesIdle /\ [][PagingNext]_vars

\* ------------------------------------------------------------ ConditionEvaluator

ConditionTypes ==
    {"greater_than", "less_than", "equals", "not_equals", "between", "crosses_above",
     "crosses_below", "is_rising", "is_falling"}

\* The values an indicator may have for a candle; null is Null.
IndicatorValues == {0, 2}

\* The references of a condition: the id of an indicator, or a number.
Ref(name) == [isNumber |-> FALSE, name |-> name, number |-> 0]
Number(n) == [isNumber |-> TRUE, name |-> "", number |-> n]

\* condition.params: absent, or min and max.
NoParams == [given |-> FALSE, min |-> 0, max |-> 0]
ParamsSet == {NoParams, [given |-> TRUE, min |-> 1, max |-> 2]}

Conditions ==
    [type : ConditionTypes, left : {Ref("fast")}, right : {Ref("slow"), Number(1)},
     params : ParamsSet]

\* An EvaluationContext: the indicators of the candle and, where hasPrevious, those of
\* the candle before it.
IndicatorMaps == [{"fast", "slow"} -> IndicatorValues \cup {Null}]
EvaluationContexts ==
    [indicators : IndicatorMaps, hasPrevious : BOOLEAN, previous : IndicatorMaps]

\* resolveValue for a number and for the id of a single-valued indicator: a null
\* indicator is no number, no object, no variable and parses to NaN, which gives null.
resolveValue(ref, context, usePrevious) ==
    IF ref.isNumber THEN ref.number
    ELSE IF usePrevious /\ context.hasPrevious THEN context.previous[ref.name]
    ELSE context.indicators[ref.name]

\* evaluateBetween; ratio >= min && ratio <= max is written without the division.
evaluateBetween(leftValue, rightValue, params) ==
    IF ~params.given THEN FALSE
    ELSE IF rightValue # Null /\ rightValue # 0
    THEN leftValue >= params.min * rightValue /\ leftValue <= params.max * rightValue
    ELSE leftValue >= params.min /\ leftValue <= params.max

evaluateCrossesAbove(leftRef, rightRef, context) ==
    IF ~context.hasPrevious THEN FALSE
    ELSE LET currentLeft == resolveValue(leftRef, context, FALSE)
             currentRight == resolveValue(rightRef, context, FALSE)
             prevLeft == resolveValue(leftRef, context, TRUE)
             prevRight == resolveValue(rightRef, context, TRUE)
         IN  IF \/ currentLeft = Null \/ currentRight = Null
                \/ prevLeft = Null \/ prevRight = Null
             THEN FALSE
             ELSE prevLeft <= prevRight /\ currentLeft > currentRight

evaluateCrossesBelow(leftRef, rightRef, context) ==
    IF ~context.hasPrevious THEN FALSE
    ELSE LET currentLeft == resolveValue(leftRef, context, FALSE)
             currentRight == resolveValue(rightRef, context, FALSE)
             prevLeft == resolveValue(leftRef, context, TRUE)
             prevRight == resolveValue(rightRef, context, TRUE)
         IN  IF \/ currentLeft = Null \/ currentRight = Null
                \/ prevLeft = Null \/ prevRight = Null
             THEN FALSE
             ELSE prevLeft >= prevRight /\ currentLeft < currentRight

evaluateIsRising(ref, context) ==
    IF ~context.hasPrevious THEN FALSE
    ELSE LET current == resolveValue(ref, context, FALSE)
             prev == resolveValue(ref, context, TRUE)
         IN  IF current = Null \/ prev = Null THEN FALSE ELSE current > prev

evaluateIsFalling(ref, context) ==
    IF ~context.hasPrevious THEN FALSE
    ELSE LET current == resolveValue(ref, context, FALSE)
             prev == resolveValue(ref, context, TRUE)
         IN  IF current = Null \/ prev = Null THEN FALSE ELSE current < prev

\* ConditionEvaluator.evaluateCondition.
evaluateCondition(condition, context) ==
    LET leftValue == resolveValue(condition.left, context, FALSE)
        rightValue == resolveValue(condition.right, context, FALSE)
    IN  IF leftValue = Null THEN FALSE
        ELSE CASE condition.type = "greater_than" ->
                      rightValue # Null /\ leftValue > rightValue
               [] condition.type = "less_than" ->
                      rightValue # Null /\ leftValue < rightValue
               [] condition.type = "equals" -> leftValue = rightValue
               [] condition.type = "not_equals" -> leftValue # rightValue
               [] condition.type = "between" ->
                      evaluateBetween(leftValue, rightValue, condition.params)
               [] condition.type = "crosses_above" ->
                      evaluateCrossesAbove(condition.left, condition.right, context)
               [] condition.type = "crosses_below" ->
                      evaluateCrossesBelow(condition.left, condition.right, context)
               [] condition.type = "is_rising" -> evaluateIsRising(condition.left, context)
               [] condition.type = "is_falling" -> evaluateIsFalling(condition.left, context)
               [] OTHER -> FALSE

\* One call of evaluateCondition; the evaluator keeps nothing from call to call.
EvaluateCondition(condition, context) ==
    /\ ~evaluated.called
    /\ evaluated' = [called |-> TRUE, condition |-> condition, context |-> context,
                     value |-> evaluateCondition(condition, context)]
    /\ UNCHANGED <<engineVars, downloadVars, cacheVars, rerunVars, backtestVars,
                   strategyVars, mapped, paging, aggregated>>

EvaluatorNext ==
    \E condition \in Conditions, context \in EvaluationContexts :
        EvaluateCondition(condition, context)

EvaluatorSpec == ServicesIdle /\ [][EvaluatorNext]_vars

\* ------------------------------------------------------------ aggregateOHLCV

\* The 1m candles have the timestamps 0 .. MaxMinute, in minutes.
MaxMinute == 4

\* timeframeToMs of the source timeframe '1m', in minutes.
SourceMs == 1

\* timeframeToMs of the target timeframes, in minutes.
TargetDurations == {2, 3}

\* The prices and the volume a 1m candle may have.
MinuteShapes ==
    {[open |-> 10, high |-> 12, low |-> 9, close |-> 11, volume |-> 1],
     [open |-> 11, high |-> 15, low |-> 8, close |-> 9, volume |-> 2]}

MinuteCandle(t, shape) ==
    [timestamp |-> t, open |-> shape.open, high |-> shape.high, low |-> shape.low,
     close |-> shape.close, volume |-> shape.volume]

\* The candles of the minutes T in time order, each with one of the shapes.
RECURSIVE MinuteSeriesOf(_)
MinuteSeriesOf(T) ==
    IF T = {} THEN {<<>>}
    ELSE LET last == CHOOSE t \in T : \A u \in T : u <= t
         IN  {Append(series, MinuteCandle(last, shape)) :
                  series \in MinuteSeriesOf(T \ {last}), shape \in MinuteShapes}

\* The 1m series: candles in time order, minutes may be missing.
MinuteSeries == UNION {MinuteSeriesOf(T) : T \in SUBSET (0..MaxMinute)}

RECURSIVE SumVolumes(_, _)
SumVolumes(candles, k) ==
    IF k > Len(candles) THEN 0 ELSE candles[k].volume + SumVolumes(candles, k + 1)

\* A period candle that takes every value from the first candle of the period.
aggregatePeriodFromFirstCandle(candles, periodStart) ==
    [candles[1] EXCEPT !.timestamp = periodStart]

\* aggregatePeriod.
aggregatePeriod(candles, periodStart) ==
    [timestamp |-> periodStart,
     open |-> candles[1].open,
     high |-> CHOOSE h \in {candles[k].high : k \in 1..Len(candles)} :
                  \A k \in 1..Len(candles) : candles[k].high <= h,
     low |-> CHOOSE l \in {candles[k].low : k \in 1..Len(candles)} :
                 \A k \in 1..Len(candles) : candles[k].low >= l,
     close |-> candles[Len(candles)].close,
     volume |-> SumVolumes(candles, 1)]

\* The loop of aggregateOHLCV from the k-th candle on, and the closing of the last
\* period.
RECURSIVE AggregateLoop(_, _, _, _, _, _)
AggregateLoop(srcData, k, targetMs, currentPeriodStart, periodCandles, periods) ==
    IF k > Len(srcData)
    THEN IF Len(periodCandles) > 0
         THEN Append(periods, aggregatePeriod(periodCandles, currentPeriodStart))
         ELSE periods
    ELSE LET candlePeriodStart == (srcData[k].timestamp \div targetMs) * targetMs
         IN  IF candlePeriodStart # currentPeriodStart /\ Len(periodCandles) > 0
             THEN AggregateLoop(srcData, k + 1, targetMs, candlePeriodStart, <<srcData[k]>>,
                                Append(periods,
                                       aggregatePeriod(periodCandles, currentPeriodStart)))
             ELSE AggregateLoop(srcData, k + 1, targetMs, currentPeriodStart,
                                Append(periodCandles, srcData[k]), periods)

\* aggregateOHLCV(data, sourceTimeframe, targetTimeframe), the timeframes given by
\* their durations; srcData is data, periods in the loop is result.
aggregateOHLCV(srcData, sourceMs, targetMs) ==
    IF Len(srcData) = 0 THEN <<>>
    ELSE IF targetMs <= sourceMs THEN srcData
    ELSE AggregateLoop(srcData, 1, targetMs, (srcData[1].timestamp \div targetMs) * targetMs,
                       <<>>, <<>>)

\* One call of aggregateOHLCV on a 1m series.
AggregateOHLCV(srcData, targetMs) ==
    /\ ~aggregated.called
    /\ aggregated' = [called |-> TRUE, data |-> srcData, targetMs |-> targetMs,
                      value |-> aggregateOHLCV(srcData, SourceMs, targetMs)]
    /\ UNCHANGED <<engineVars, downloadVars, cacheVars, rerunVars, backtestVars,
                   strategyVars, mapped, paging, evaluated>>

AggregatorNext ==
    \E srcData \in MinuteSeries, targetMs \in TargetDurations :
        AggregateOHLCV(srcData, targetMs)

AggregatorSpec == ServicesIdle /\ [][AggregatorNext]_vars

\* downloadCandlesWithProgress up to its await: the status entry of the symbol is
\* created and stored, and fetchCachedCandles is called.
Download(symbol) ==
    /\ requests < MaxRequests
    /\ requests' = requests + 1
    /\ activeDownloads' =
           [activeDownloads EXCEPT ![symbol] =
                [exists |-> TRUE, id |-> requests + 1, status |-> "running",
                 progress |-> 0, loaded |-> 0, total |-> DownloadMinutes]]
    /\ fetches' = fetches \cup {[call |-> requests + 1, symbol |-> symbol, lastLoaded |-> 0]}
    /\ UNCHANGED <<engineVars, cacheVars, apiVars>>

\* The progress callback of a running fetch: loaded may be undefined.
FetchProgress(f, loaded) ==
    /\ f \in fetches
    /\ LET currentLoaded == Nullish(loaded, f.lastLoaded)
           currentTotal == DownloadMinutes
           currentStatus == activeDownloads[f.symbol]
       IN  /\ fetches' = (fetches \ {f}) \cup {[f EXCEPT !.lastLoaded = currentLoaded]}
           /\ activeDownloads' =
                  IF currentStatus.exists
                  THEN [activeDownloads EXCEPT ![f.symbol] =
                            [currentStatus EXCEPT
                                 !.loaded = currentLoaded,
                                 !.total = currentTotal,
                                 !.progress = IF currentTotal > 0
                                              THEN RoundPercent(currentLoaded, currentTotal)
                                              ELSE 0]]
                  ELSE activeDownloads
    /\ UNCHANGED <<engineVars, requests, cacheVars, apiVars>>

\* fetchCachedCandles resolves with candlesCount candles.
FetchResolve(f, candlesCount) ==
    /\ f \in fetches
    /\ fetches' = fetches \ {f}
    /\ LET finalStatus == activeDownloads[f.symbol]
       IN  activeDownloads' =
               IF finalStatus.exists
               THEN [activeDownloads EXCEPT ![f.symbol] =
                         [finalStatus EXCEPT !.status = "completed", !.progress = 100,
                                             !.loaded = candlesCount]]
               ELSE activeDownloads
    /\ UNCHANGED <<engineVars, requests, cacheVars, apiVars>>

\* fetchCachedCandles rejects.
FetchReject(f) ==
    /\ f \in fetches
    /\ fetches' = fetches \ {f}
    /\ LET errorStatus == activeDownloads[f.symbol]
       IN  activeDownloads' =
               IF errorStatus.exists
               THEN [activeDownloads EXCEPT ![f.symbol] =
                         [errorStatus EXCEPT !.status = "failed"]]
               ELSE activeDownloads
    /\ UNCHANGED <<engineVars, requests, cacheVars, apiVars>>

DownloadInit ==
    /\ Init
    /\ strategy = AlwaysLong
    /\ config.startDate = 1
    /\ config.commissionPercent = 0

DownloadNext ==
    \/ \E symbol \in Symbols : Download(symbol)
    \/ \E f \in fetches : \E loaded \in {Undefined} \cup (1..DownloadMinutes) :
           FetchProgress(f, loaded)
    \/ \E f \in fetches : \E candlesCount \in 0..DownloadMinutes : FetchResolve(f, candlesCount)
    \/ \E f \in fetches : FetchReject(f)

DownloadSpec == DownloadInit /\ [][DownloadNext]_vars

\* ------------------------------------------- the simulator called directly

\* Number of fills (positions opened plus trades made) of a call sequence.
MaxFills == 4

\* Number of candles a call sequence processes.
MaxSimCandles == 2

\* The price of an entry signal, and the prices positions are closed at.
SimEntryPrice == 10000
SimExitPrices == {10000, 40000}

\* The stopLossConfig and atrValue arguments of openPosition: atrValue 0 is
\* undefined (no ATR yet).
SimStops ==
    { [config |-> NoStop, atrValue |-> 0],
      [config |-> [type |-> "fixed_percent", value |-> 20], atrValue |-> 0],
      [config |-> [type |-> "fixed_price", value |-> 12000], atrValue |-> 0],
      [config |-> [type |-> "atr_multiple", value |-> 2], atrValue |-> 0],
      [config |-> [type |-> "atr_multiple", value |-> 2], atrValue |-> 500] }

SimShapes == { <<10000, 10000, 10000>>, <<8000, 12000, 11000>> }

SimCandlesAt(ts) ==
    { [timestamp |-> ts, low |-> s[1], high |-> s[2], close |-> s[3],
       cond |-> [long |-> FALSE, short |-> FALSE, exit |-> FALSE], atr |-> 0]
        : s \in SimShapes }

\* Every open position has a size that is a number.
SizesFinite ==
    \A k \in 1..Len(sim.portfolio.openPositions) : sim.portfolio.openPositions[k].sizeFinite

\* A caller's openPosition(signal, candle, symbol, stopLossConfig, undefined,
\* undefined, 2, atrValue) on the current candle.
SimOpenPosition ==
    /\ pc = "start"
    /\ SizesFinite
    /\ sim.nextId <= MaxFills
    /\ \E type \in {"entry_long", "entry_short"} : \E stop \in SimStops :
       \E r \in {openPosition(sim, [type |-> type, price |-> SimEntryPrice], candle,
                              Symbol, stop.config, NoStop, NoTrailing, 2,
                              stop.atrValue)} :
           sim' = r.sim
    /\ UNCHANGED <<strategy, config, pc, i, equityCurve, peakEquity, executorPosition,
                   executeSnapshot, candle, signal, hadPosition, closedCount, onProgress,
                   progressEvents, result, cancelRequested, cancelledBefore,
                   serviceVars>>

\* A caller's processCandle(candle, symbol) with the next candle.
SimProcessCandle ==
    /\ pc = "start"
    /\ SizesFinite
    /\ candle.timestamp < MaxSimCandles
    /\ \E cndl \in SimCandlesAt(candle.timestamp + 1) :
       \E after \in {processCandle(sim, cndl, Symbol)} :
           /\ sim' = after
           /\ candle' = cndl
    /\ UNCHANGED <<strategy, config, pc, i, equityCurve, peakEquity, executorPosition,
                   executeSnapshot, signal, hadPosition, closedCount, onProgress,
                   progressEvents, result, cancelRequested, cancelledBefore,
                   serviceVars>>

\* A caller's closePosition(position, exitPrice, exitTime, 'manual') on a position
\* that getOpenPositions() returns.
SimClosePosition ==
    /\ pc = "start"
    /\ SizesFinite
    /\ sim.nextId <= MaxFills
    /\ \E k \in 1..Len(sim.portfolio.openPositions) : \E exitPrice \in SimExitPrices :
       \E after \in {closePosition(sim, sim.portfolio.openPositions[k], exitPrice,
                                   candle.timestamp, "manual")} :
           sim' = after
    /\ UNCHANGED <<strategy, config, pc, i, equityCurve, peakEquity, executorPosition,
                   executeSnapshot, candle, signal, hadPosition, closedCount, onProgress,
                   progressEvents, result, cancelRequested, cancelledBefore,
                   serviceVars>>

SimInit ==
    /\ Init
    /\ strategy = AlwaysLong
    /\ config.startDate = 1

SimNext ==
    \/ SimOpenPosition
    \/ SimProcessCandle
    \/ SimClosePosition

SimSpec == SimInit /\ [][SimNext]_vars

\* ------------------------------------------- fetchCachedCandles, call by call

\* One call of fetchCachedCandles from start to return; nothing else touches the
\* cache while it runs.
FetchCachedCandles(startDate, endDate, cacheAvailable) ==
    /\ Len(fetchCalls) < MaxFetchCalls
    /\ \E returned \in {fetchCachedCandles([docs |-> candleDocs, metadata |-> metadata],
                                           exchange, startDate, endDate, cacheAvailable, 0)} :
           /\ candleDocs' = returned.store.docs
           /\ metadata' = returned.store.metadata
           /\ fetchCalls' = Append(fetchCalls,
                                   [startDate |-> startDate, endDate |-> endDate,
                                    cacheAvailable |-> cacheAvailable,
                                    candles |-> returned.candles, stats |-> returned.stats,
                                    rejected |-> returned.rejected, saveFailed |-> FALSE,
                                    saveCalls |-> returned.saveCalls,
                                    delivered |-> returned.delivered,
                                    passedToSave |-> returned.passedToSave,
                                    pending |-> returned.pending])
    /\ UNCHANGED <<engineVars, downloadVars, apiVars, exchange, probe, writers>>

\* One call of fetchCachedCandles with the cache up, during which the saveFailsAt-th
\* saveCandles call rejects.
FetchWithFailingSave(startDate, endDate, saveFailsAt) ==
    /\ Len(fetchCalls) < MaxFetchCalls
    /\ \E returned \in {fetchCachedCandles([docs |-> candleDocs, metadata |-> metadata],
                                           exchange, startDate, endDate, TRUE, saveFailsAt)} :
           /\ returned.saveCalls >= saveFailsAt
           /\ candleDocs' = returned.store.docs
           /\ metadata' = returned.store.metadata
           /\ fetchCalls' = Append(fetchCalls,
                                   [startDate |-> startDate, endDate |-> endDate,
                                    cacheAvailable |-> TRUE,
                                    candles |-> returned.candles, stats |-> returned.stats,
                                    rejected |-> returned.rejected, saveFailed |-> TRUE,
                                    saveCalls |-> returned.saveCalls,
                                    delivered |-> returned.delivered,
                                    passedToSave |-> returned.passedToSave,
                                    pending |-> returned.pending])
    /\ UNCHANGED <<engineVars, downloadVars, apiVars, exchange, probe, writers>>

\* The cache holds some of the exchange's candles, saved earlier.
FetchInit ==
    /\ strategy = AlwaysLong
    /\ config \in {c \in Configs : c.startDate = 1 /\ c.commissionPercent = 0}
    /\ RunInit
    /\ ApiIdle
    /\ exchange \in ExchangeContents
    /\ \E S \in SUBSET exchange :
           /\ candleDocs = StoreOf(S).docs
           /\ metadata = StoreOf(S).metadata
    /\ fetchCalls = <<>>
    /\ probe = NoProbe
    /\ writers = [w \in Writers |-> IdleWriter]

FetchNext ==
    \E startDate \in Timestamps : \E endDate \in startDate..MaxTime :
        \E cacheAvailable \in BOOLEAN :
            FetchCachedCandles(startDate, endDate, cacheAvailable)

FetchSpec == FetchInit /\ [][FetchNext]_vars

\* Number of saveCandles calls of one fetch; any of them may be the one that rejects.
MaxSaves == 2

FailingSaveNext ==
    \/ FetchNext
    \/ \E startDate \in Timestamps : \E endDate \in startDate..MaxTime :
           \E saveFailsAt \in 1..MaxSaves :
               FetchWithFailingSave(startDate, endDate, saveFailsAt)

FailingSaveSpec == FetchInit /\ [][FailingSaveNext]_vars

\* ------------------------------------- findMissingRanges against getCandles

\* findMissingRanges and getCandles are called for the same window.
ProbeRanges(startTs, endTs) ==
    /\ probe' = [startTs |-> startTs, endTs |-> endTs,
                 missingRanges |-> findMissingRanges(candleDocs, startTs, endTs),
                 candles |-> getCandles(candleDocs, startTs, endTs)]
    /\ UNCHANGED <<engineVars, downloadVars, apiVars, exchange, candleDocs, metadata, fetchCalls,
                   writers>>

\* The cache holds any candles of the timeframe.
RangeInit ==
    /\ strategy = AlwaysLong
    /\ config \in {c \in Configs : c.startDate = 1 /\ c.commissionPercent = 0}
    /\ RunInit
    /\ ApiIdle
    /\ exchange = {ExchangeCandle(t) : t \in AlignedTimestamps}
    /\ \E S \in SUBSET exchange :
           /\ candleDocs = StoreOf(S).docs
           /\ metadata = StoreOf(S).metadata
    /\ fetchCalls = <<>>
    /\ probe = NoProbe
    /\ writers = [w \in Writers |-> IdleWriter]

RangeNext ==
    \E startTs \in Timestamps : \E endTs \in startTs..MaxTime : ProbeRanges(startTs, endTs)

RangeSpec == RangeInit /\ [][RangeNext]_vars

\* ------------------------------------------------ concurrent saveCandles

\* saveCandles is called: an empty batch returns 0 at once, any other batch builds
\* its operations and sends them.
SaveCall(w, candles) ==
    /\ writers[w].pc = "idle"
    /\ writers[w].calls < MaxSaveCalls
    /\ writers' = [writers EXCEPT ![w] =
                       [@ EXCEPT !.pc = IF Len(candles) = 0 THEN "idle" ELSE "match",
                                 !.candles = candles,
                                 !.k = 1,
                                 !.matched = NoDocument,
                                 !.calls = @ + 1]]
    /\ UNCHANGED <<engineVars, downloadVars, apiVars, exchange, candleDocs, metadata, fetchCalls,
                   probe>>

\* The database evaluates the filter of the k-th updateOne.
SaveMatch(w) ==
    /\ writers[w].pc = "match"
    /\ writers' = [writers EXCEPT ![w] =
                       [@ EXCEPT !.pc = "write",
                                 !.matched = findDocument(candleDocs,
                                                         writers[w].candles[writers[w].k])]]
    /\ UNCHANGED <<engineVars, downloadVars, apiVars, exchange, candleDocs, metadata, fetchCalls,
                   probe>>

\* The database applies the k-th updateOne: $set on the matched document, or the
\* insert of the upsert; an insert that the unique index refuses is run again as an
\* update of the document that holds the key.
SaveWrite(w) ==
    /\ writers[w].pc = "write"
    /\ LET c == writers[w].candles[writers[w].k]
           matched == writers[w].matched
       IN  candleDocs' =
               IF matched # NoDocument THEN updateDocument(candleDocs, matched, c)
               ELSE IF uniqueIndexAllows(candleDocs, c) THEN insertDocument(candleDocs, c)
               ELSE updateDocument(candleDocs, findDocument(candleDocs, c), c)
    /\ writers' = [writers EXCEPT ![w] =
                       [@ EXCEPT !.pc = IF writers[w].k = Len(writers[w].candles)
                                       THEN "metadata" ELSE "match",
                                 !.k = @ + 1,
                                 !.matched = NoDocument,
                                 !.wrote = @ \cup {writers[w].candles[writers[w].k]}]]
    /\ UNCHANGED <<engineVars, downloadVars, apiVars, exchange, metadata, fetchCalls, probe>>

\* The unique index refuses the insert of the upsert and the database reports the
\* duplicate key: bulkWrite rejects and saveCandles throws.
SaveDuplicateKey(w) ==
    /\ writers[w].pc = "write"
    /\ writers[w].matched = NoDocument
    /\ ~uniqueIndexAllows(candleDocs, writers[w].candles[writers[w].k])
    /\ writers' = [writers EXCEPT ![w] = [@ EXCEPT !.pc = "failed"]]
    /\ UNCHANGED <<engineVars, downloadVars, apiVars, exchange, candleDocs, metadata, fetchCalls,
                   probe>>

\* The metadata updateOne that follows the last bulkWrite; saveCandles returns.
SaveMetadata(w) ==
    /\ writers[w].pc = "metadata"
    /\ metadata' = updateMetadata(metadata, writers[w].candles)
    /\ writers' = [writers EXCEPT ![w] = [@ EXCEPT !.pc = "idle"]]
    /\ UNCHANGED <<engineVars, downloadVars, apiVars, exchange, candleDocs, fetchCalls, probe>>

\* An awaited write rejects (the connection is lost, the process dies): saveCandles
\* throws and the writes it has not made are never made.
SaveFail(w) ==
    /\ writers[w].pc \in {"match", "write", "metadata"}
    /\ writers' = [writers EXCEPT ![w] = [@ EXCEPT !.pc = "failed"]]
    /\ UNCHANGED <<engineVars, downloadVars, apiVars, exchange, candleDocs, metadata, fetchCalls,
                   probe>>

\* The cache is empty or holds the first candle of the exchange.
SaveInit ==
    /\ strategy = AlwaysLong
    /\ config \in {c \in Configs : c.startDate = 1 /\ c.commissionPercent = 0}
    /\ RunInit
    /\ ApiIdle
    /\ exchange = {ExchangeCandle(0)}
    /\ \E S \in SUBSET exchange :
           /\ candleDocs = StoreOf(S).docs
           /\ metadata = StoreOf(S).metadata
    /\ fetchCalls = <<>>
    /\ probe = NoProbe
    /\ writers = [w \in Writers |-> IdleWriter]

SaveNext ==
    \E w \in Writers :
        \/ \E candles \in Batches(w) : SaveCall(w, candles)
        \/ SaveMatch(w)
        \/ SaveWrite(w)
        \/ SaveDuplicateKey(w)
        \/ SaveMetadata(w)
        \/ SaveFail(w)

SaveSpec == SaveInit /\ [][SaveNext]_vars

\* ------------------------------------------------ saveCandles and clearCache in turn

\* The metadata document counts at most MaxCount candles.
MaxCount == 4

\* The candles argument of saveCandles: candles of the timeframe, oldest first, no
\* timestamp twice, with the values one of two downloads gave them.
SavedBatches ==
    {Ascending({WriterCandle(w, t) : t \in T}) :
         w \in Writers, T \in (SUBSET AlignedTimestamps) \ {{}}}

\* CandleCache.clearCache(symbol, timeframe): deleteMany on both collections.
clearCache(store) == [store |-> [docs |-> {}, metadata |-> NoMetadata],
                      deletedCount |-> Cardinality(store.docs)]

\* One saveCandles call from beginning to end, no other call in progress.
SaveCandles(candles) ==
    /\ metadata.candleCount + Len(candles) <= MaxCount
    /\ \E saved \in {saveCandles([docs |-> candleDocs, metadata |-> metadata], candles)} :
           /\ candleDocs' = saved.store.docs
           /\ metadata' = saved.store.metadata
    /\ UNCHANGED <<engineVars, downloadVars, apiVars, exchange, fetchCalls, probe, writers>>

\* One clearCache call from beginning to end, no other call in progress.
ClearCache ==
    /\ \E cleared \in {clearCache([docs |-> candleDocs, metadata |-> metadata])} :
           /\ candleDocs' = cleared.store.docs
           /\ metadata' = cleared.store.metadata
    /\ UNCHANGED <<engineVars, downloadVars, apiVars, exchange, fetchCalls, probe, writers>>

CacheCallsNext ==
    \/ \E candles \in SavedBatches : SaveCandles(candles)
    \/ ClearCache

CacheCallsSpec == SaveInit /\ [][CacheCallsNext]_vars

\* ------------------------------------------------------------ properties

LastTrade == sim.trades[Len(sim.trades)]

RECURSIVE SumNetPnl(_)
SumNetPnl(trades) ==
    IF trades = <<>> THEN 0 ELSE Head(trades).netPnl + SumNetPnl(Tail(trades))

\* C1: in a completed run with at least one trade, the netPnl of the result's
\* trades sums to metrics.finalCapital - initialCapital, within 1e-6 of the
\* initial capital.
C1_NetPnlSumsToCapitalChange ==
    (pc = "done" /\ result.status = "completed" /\ Len(sim.trades) >= 1)
        => Abs(SumNetPnl(sim.trades)
               - (result.metrics.finalCapital - config.initialCapital))
               <= config.initialCapital \div 1000000

\* C2: a position that closePosition has closed, and so has a trade, is not
\* among the portfolio's open positions, whoever called closePosition.
C2_ClosedPositionNotOpen ==
    \A n \in 1..Len(sim.trades) :
        \A k \in 1..Len(sim.portfolio.openPositions) :
            sim.portfolio.openPositions[k].id # sim.trades[n].positionId

\* C3: after an iteration on a candle whose signalExit conditions hold while a
\* position was open, the signal applied is exit_long or exit_short and the
\* position was closed at the candle's close with exit reason 'signal'.
C3_SignalExitClosesPosition ==
    (pc = "loop" /\ candle # NoCandle /\ hadPosition
            /\ strategy.signalExit /\ candle.cond.exit)
        => /\ signal.type \in {"exit_long", "exit_short"}
           /\ Len(sim.trades) >= 1
           /\ LastTrade.exitReason = "signal"
           /\ LastTrade.exitTime = candle.timestamp
           /\ LastTrade.exitPrice = applySlippage(candle.close, LastTrade.side = "short")

\* C4: the step that completes a run closes every position still open after the
\* last candle: one trade each, with exit reason 'manual', exit time the last
\* candle's timestamp and exit price taken from the last candle's close.
C4_RemainingPositionsForceClosed ==
    [][(pc = "loop" /\ pc' = "done" /\ result'.status = "completed")
        => \A k \in 1..Len(sim.portfolio.openPositions) :
               LET position == sim.portfolio.openPositions[k]
                   closing == {n \in (Len(sim.trades) + 1)..Len(sim'.trades) :
                                   sim'.trades[n].positionId = position.id}
               IN  /\ Cardinality(closing) = 1
                   /\ \A n \in closing :
                          /\ sim'.trades[n].exitReason = "manual"
                          /\ sim'.trades[n].exitTime = TimestampAt(totalCandles - 1)
                          /\ sim'.trades[n].exitPrice =
                                 applySlippage(candle.close, position.side = "short")
      ]_vars

C4_Witness ==
    /\ pc = "done"
    /\ result.status = "completed"
    /\ config.slippagePercent > 0
    /\ Len(sim.trades) >= 1
    /\ LastTrade.exitReason = "manual"
    /\ LastTrade.exitTime = TimestampAt(totalCandles - 1)

\* C5: the number of open positions never exceeds riskManagement.maxOpenPositions.
C5_OpenPositionsWithinMax ==
    Len(sim.portfolio.openPositions) <= strategy.maxOpenPositions

\* C6: run never throws: it ends in a result, with status 'failed' when an error
\* was raised in the candle loop.
C6_RunNeverRejects == pc # "rejected"

\* C7: once the cancellation signal is set before the candle at index k is
\* processed, no candle from k on is processed and the run ends 'cancelled'.
C7_CancelStopsRun ==
    cancelRequested
        => /\ i = cancelledBefore
           /\ Len(equityCurve) = cancelledBefore - getRequiredPeriods
           /\ pc = "done" => result.status = "cancelled"

\* C8: at most one fetch is in flight per symbol.
C8_OneFetchPerSymbol ==
    \A symbol \in Symbols : Cardinality({f \in fetches : f.symbol = symbol}) <= 1

\* The exit levels of the position that the candle triggers, ranked in the
\* order stop loss, trailing stop, take profit.
C9_Levels(position, cndl) ==
    LET ts == position.trailingStop
    IN  {lv \in {[rank |-> 1, reason |-> "stop_loss", price |-> position.stopLoss],
                 [rank |-> 2, reason |-> "trailing_stop", price |-> ts.currentStop],
                 [rank |-> 3, reason |-> "take_profit", price |-> position.takeProfit]} :
            /\ lv.price # 0
            /\ lv.rank = 2 => ts.present /\ ts.active
            /\ IF (position.side = "long") = (lv.rank # 3)
               THEN cndl.low <= lv.price
               ELSE cndl.high >= lv.price}

\* C9: when the candle of an iteration triggers more than one exit level of an
\* open position, exactly one trade closes the position, with the reason and the
\* level of the first triggered in the order stop_loss, trailing_stop, take_profit.
C9_FirstTriggeredLevelWins ==
    [][(pc = "loop" /\ Len(equityCurve') = Len(equityCurve) + 1)
        => \A k \in 1..Len(sim.portfolio.openPositions) :
               LET position == sim.portfolio.openPositions[k]
                   levels == C9_Levels(position, candle')
                   exits == {n \in (Len(sim.trades) + 1)..Len(sim'.trades) :
                                 sim'.trades[n].positionId = position.id}
               IN  Cardinality(levels) > 1
                       => /\ Cardinality(exits) = 1
                          /\ \A n \in exits : \E first \in levels :
                                 /\ \A lv \in levels : first.rank <= lv.rank
                                 /\ sim'.trades[n].exitReason = first.reason
                                 /\ sim'.trades[n].exitTime = candle'.timestamp
                                 /\ sim'.trades[n].exitPrice =
                                        applySlippage(first.price, position.side = "short")
      ]_vars

\* A candle reached both the stop loss and the take profit of the position it closed.
C9_Witness ==
    /\ pc = "loop"
    /\ candle # NoCandle
    /\ Len(sim.trades) >= 1
    /\ LastTrade.exitTime = candle.timestamp
    /\ LastTrade.exitReason = "stop_loss"
    /\ LastTrade.side = "long"
    /\ strategy.takeProfit.type = "fixed_percent"
    /\ candle.high >= calculateTakeProfit(LastTrade.entryPrice, "long",
                                          strategy.takeProfit, 0, 0)

\* C10: while a position stays open, its trailing stop, once active, stays active
\* and never moves against the position: not down for a long, not up for a short.
C10_TrailingStopNeverRetreats ==
    [][\A k \in 1..Len(sim.portfolio.openPositions) :
           \A j \in 1..Len(sim'.portfolio.openPositions) :
               LET before == sim.portfolio.openPositions[k]
                   after == sim'.portfolio.openPositions[j]
               IN  (before.id = after.id /\ before.trailingStop.active)
                       => /\ after.trailingStop.active
                          /\ IF before.side = "long"
                             THEN after.trailingStop.currentStop
                                      >= before.trailingStop.currentStop
                             ELSE after.trailingStop.currentStop
                                      <= before.trailingStop.currentStop
      ]_vars

\* An active stop above the entry was kept on a candle whose high is below the
\* highest price seen.
C10_Witness ==
    /\ pc = "loop"
    /\ candle # NoCandle
    /\ \E k \in 1..Len(sim.portfolio.openPositions) :
           LET position == sim.portfolio.openPositions[k]
           IN  /\ position.side = "long"
               /\ position.trailingStop.active
               /\ position.trailingStop.currentStop > position.entryPrice
               /\ position.trailingStop.highestPrice > candle.high
               /\ position.entryTime < candle.timestamp

\* C11: every open position with a stop loss has the stop on the losing side of
\* its entry price: below it for a long, above it for a short.
C11_StopLossOnLosingSide ==
    \A k \in 1..Len(sim.portfolio.openPositions) :
        LET position == sim.portfolio.openPositions[k]
        IN  Truthy(position.stopLoss)
                => IF position.side = "long"
                   THEN position.stopLoss < position.entryPrice
                   ELSE position.stopLoss > position.entryPrice

\* C12: after any sequence of openPosition, processCandle and closePosition calls
\* the portfolio's equity is currentCapital plus the unrealizedPnl of the open
\* positions.
C12_EquityIsCapitalPlusUnrealized ==
    sim.portfolio.equity =
        sim.portfolio.currentCapital + SumUnrealized(sim.portfolio.openPositions)

RECURSIVE SumPnl(_)
SumPnl(trades) ==
    IF trades = <<>> THEN 0 ELSE Head(trades).pnl + SumPnl(Tail(trades))

\* C13: after any sequence of opens and closes, currentCapital is initialCapital
\* plus the gross pnl of the closed trades minus the commission of every fill
\* (totalCommission).
C13_CapitalNetOfEveryCommission ==
    sim.portfolio.currentCapital =
        sim.portfolio.initialCapital + SumPnl(sim.trades) - sim.portfolio.totalCommission

\* C15: after any sequence of openPosition, processCandle and closePosition calls
\* availableCapital is not negative.
C15_AvailableCapitalNonNegative == sim.portfolio.availableCapital >= 0

\* C16: every position openPosition has opened has a finite size above 0.
C16_PositionSizePositive ==
    \A k \in 1..Len(sim.portfolio.openPositions) :
        /\ sim.portfolio.openPositions[k].sizeFinite
        /\ sim.portfolio.openPositions[k].size > 0

\* C14: every equity point a run records has equity >= 0 and a drawdownPercent
\* between 0 and 100.
C14_EquityPointsInRange ==
    \A k \in 1..Len(equityCurve) :
        /\ equityCurve[k].equity >= 0
        /\ equityCurve[k].drawdownPercent >= 0
        /\ equityCurve[k].drawdownPercent <= 100

\* C17: with the cache up, when fetchCachedCandles is called twice in succession with
\* the same window, the second call takes nothing from the exchange
\* (stats.fromApi = 0), reports stats.fromCache equal to the number of candles it
\* returns, and returns the candle sequence of the first call.
C17_SecondFetchServedFromCache ==
    \A n \in 1..(Len(fetchCalls) - 1) :
        LET first == fetchCalls[n]
            second == fetchCalls[n + 1]
        IN  ( /\ first.cacheAvailable
              /\ second.cacheAvailable
              /\ second.startDate = first.startDate
              /\ second.endDate = first.endDate )
            => /\ second.stats.fromApi = 0
               /\ second.stats.fromCache = Len(second.candles)
               /\ second.candles = first.candles

\* C18: for a window [a, b], findMissingRanges returns no range exactly when
\* getCandles returns floor((b - a) / D) + 1 candles, D being the timeframe's
\* duration.
C18_NoMissingRangeIffFullCount ==
    probe.startTs # Undefined
    => ( Len(probe.missingRanges) = 0
         <=> Len(probe.candles) = (probe.endTs - probe.startTs) \div IntervalMs + 1 )

\* C19: saving a batch is atomic with its metadata update: at no moment, and after no
\* failure, does the cache hold a candle that the metadata document does not
\* reflect, i.e. with a timestamp outside [firstTimestamp, lastTimestamp] or with
\* candleCount below the number of candles stored.
C19_StoredCandlesReflectedInMetadata ==
    /\ \A d \in candleDocs :
           /\ metadata.exists
           /\ metadata.firstTimestamp <= d.timestamp
           /\ d.timestamp <= metadata.lastTimestamp
    /\ metadata.candleCount >= Cardinality(candleDocs)

\* The candles of a key that the writers have written so far.
WritesOf(t) == {c \in UNION {writers[w].wrote : w \in Writers} : c.timestamp = t}

\* C20: writes of one candle key are idempotent: however the saveCandles calls of
\* concurrent writers interleave, once a key has been written there is exactly one
\* candle document for it, and it holds the values of one of the writes.
C20_OneDocumentPerWrittenKey ==
    \A t \in Timestamps :
        WritesOf(t) # {}
        => /\ Cardinality({d \in candleDocs : d.timestamp = t}) = 1
           /\ \A d \in candleDocs :
                  d.timestamp = t => \E c \in WritesOf(t) : d.close = c.close

\* Both writers have written the same key, each with its own values.
C20_Witness ==
    \E t \in Timestamps :
        \A w \in Writers : \E c \in writers[w].wrote : c.timestamp = t

\* C21: when a saveCandles call fails while fetchCachedCandles is downloading missing
\* ranges, the call is not aborted: it returns, and what it returns holds the candles
\* the exchange delivered.
C21_FailedSaveDoesNotAbortFetch ==
    \A n \in 1..Len(fetchCalls) :
        fetchCalls[n].saveFailed
        => /\ ~fetchCalls[n].rejected
           /\ Len(fetchCalls[n].candles) >= fetchCalls[n].stats.fromApi

\* C26: a result returned by the engine carries metrics exactly when its status is
\* 'completed', and carries a non-empty error when its status is 'failed'.
C26_MetricsIffCompleted ==
    result.status # "pending"
    => /\ result.hasMetrics <=> result.status = "completed"
       /\ result.status = "failed" => result.error # ""

\* run() has returned a failed result.
C26_Witness == pc = "done" /\ result.status = "failed" /\ ~result.hasMetrics

\* The warmup of the strategy: the largest of lookbackPeriods and the required
\* periods of its indicators.
StrategyWarmup ==
    LET periods == {strategy.lookbackPeriods} \cup
                   {strategy.indicators[k].requiredPeriods :
                        k \in {n \in 1..Len(strategy.indicators) :
                                   strategy.indicators[n].registered}}
    IN  CHOOSE p \in periods : \A q \in periods : q <= p

\* The number of candles of the input series (timestamps 1 .. MaxCandles) that lie in
\* [startDate, endDate], both ends included.
ClippedLength ==
    Cardinality({t \in 1..MaxCandles : config.startDate <= t /\ t <= config.endDate})

\* C27: run returns 'failed', with no trades, no equity point and no candle
\* processed, exactly when the series clipped to [startDate, endDate] is empty (the
\* error says no data is available) or is shorter than the strategy's warmup (the
\* error says the data is insufficient).
C27_FailsExactlyOnMissingData ==
    result.status # "pending"
    => /\ result.status = "failed"
          <=> (ClippedLength = 0 \/ ClippedLength < StrategyWarmup)
       /\ result.status = "failed"
          => /\ result.trades = <<>>
             /\ result.equityCurve = <<>>
             /\ result.processedCandles = 0
             /\ candle = NoCandle
             /\ ClippedLength = 0
                => result.error = "No data available for the specified date range"
             /\ ClippedLength # 0 => result.error = "Insufficient data"

\* run() has refused a series that is shorter than the warmup.
C27_Witness ==
    /\ pc = "done"
    /\ result.status = "failed"
    /\ ClippedLength # 0
    /\ ClippedLength < StrategyWarmup

\* C28: a completed run over a clipped series of N candles with warmup w has N - w
\* equity points, and the k-th of them (from 0) carries the timestamp of candle
\* w + k.
C28_OneEquityPointPerProcessedCandle ==
    result.status = "completed"
    => /\ Len(result.equityCurve) = ClippedLength - StrategyWarmup
       /\ \A k \in 0..(Len(result.equityCurve) - 1) :
              result.equityCurve[k + 1].timestamp = TimestampAt(StrategyWarmup + k)

\* A completed run that skipped a warmup candle and processed two candles.
C28_Witness ==
    /\ result.status = "completed"
    /\ StrategyWarmup >= 1
    /\ Len(result.equityCurve) >= 2

\* C29: with a progress callback supplied, a completed run that processed at least
\* one candle has emitted a progress event for its first processed candle and one
\* for its last.  (onProgress is "none" only when run() found no callback.)
C29_ProgressForFirstAndLastCandle ==
    ( /\ result.status = "completed"
      /\ result.processedCandles >= 1
      /\ onProgress # "none" )
    => /\ \E n \in 1..Len(progressEvents) : progressEvents[n].processedCandles = 0
       /\ \E n \in 1..Len(progressEvents) :
              progressEvents[n].processedCandles = result.processedCandles - 1

\* C30: the processedCandles values of the successive progress events of a run never
\* decrease, nor do their percentages, which lie within 0..100.
C30_ProgressNeverDecreases ==
    /\ \A n \in 1..(Len(progressEvents) - 1) :
           /\ progressEvents[n].processedCandles <= progressEvents[n + 1].processedCandles
           /\ progressEvents[n].progress <= progressEvents[n + 1].progress
    /\ \A n \in 1..Len(progressEvents) :
           progressEvents[n].progress >= 0 /\ progressEvents[n].progress <= 100

\* Two progress events have been emitted, the second further on than the first.
C30_Witness ==
    /\ Len(progressEvents) >= 2
    /\ progressEvents[1].processedCandles < progressEvents[2].processedCandles

\* C25: two runs of the engine on the same strategy, config and candle series return
\* the same trades and the same equity curve, field for field.
C25_RepeatedRunReturnsSameSequences ==
    (firstRun.returned /\ pc = "done")
        => /\ TradesOf(entropy, result.trades) = firstRun.trades
           /\ result.equityCurve = firstRun.equityCurve

\* C22: every backtest the service has finished is stored under its own backtest id,
\* which no other started run has: findOne(id) returns the result of that run's engine.
C22_EachRunStoredUnderItsOwnId ==
    \A n \in 1..Len(executions) :
        /\ \A m \in 1..Len(executions) :
               m # n => executions[m].backtestId # executions[n].backtestId
        /\ executions[n].pc # "running"
              => /\ executions[n].backtestId \in DOMAIN backtests
                 /\ backtests[executions[n].backtestId].result.run = n

\* The number of update(id, ...) calls that have returned.
UpdatesReturned(id) == updates[1].returned[id] + updates[2].returned[id]

\* C23: after n update calls on a created strategy have returned, issued one after
\* another or concurrently, its version is 1.0.n and its version list holds the n+1
\* records 1.0.0 ... 1.0.n in order.
C23_VersionCountsUpdates ==
    \A id \in CreatedIds \cap DOMAIN strategies :
        /\ strategies[id].id = id
        /\ strategies[id].schema.version = Version(1, 0, UpdatesReturned(id))
        /\ Len(strategies[id].versions) = UpdatesReturned(id) + 1
        /\ \A k \in 1..Len(strategies[id].versions) :
               strategies[id].versions[k].version = Version(1, 0, k - 1)

\* The higher-timeframe candles closed at primary candle k of the last evaluation:
\* those starting at or before floor(t_k / D_htf) * D_htf - D_htf.
ClosedHtfCandles(k) ==
    { j \in 1..Len(mapped.htfData) :
        mapped.htfData[j].timestamp
            <= (mapped.data[k].timestamp \div IntervalMs) * IntervalMs - IntervalMs }

\* C24: whenever a strategy with an indicator on a higher timeframe is evaluated, the
\* value at primary candle k is the indicator's value at the latest closed
\* higher-timeframe candle, and null when there is none.
C24_ValueOfLastClosedHtfCandle ==
    mapped.called =>
        \A k \in 1..Len(mapped.data) :
            mapped.values[k] =
                IF ClosedHtfCandles(k) = {} THEN Null
                ELSE calculate(mapped.htfData, mapped.period)[
                         CHOOSE j \in ClosedHtfCandles(k) : \A h \in ClosedHtfCandles(k) : h <= j]

\* An execute() call that is given the higher-timeframe data uses, at every primary
\* candle, the value of the latest closed higher-timeframe candle.
LastClosedHtfCandleWithHtfData == (mapped.called /\ mapped.inEngine) \/ C24_ValueOfLastClosedHtfCandle

\* C32: the signal the executor returns for a candle has the candle's close as its
\* price and the candle's timestamp as its timestamp.
C32_SignalCarriesCandleCloseAndTime ==
    candle # NoCandle
        => /\ signal.price = candle.close
           /\ signal.timestamp = candle.timestamp

\* The price of every signal is the close of its candle.
SignalPriceIsCandleClose == candle # NoCandle => signal.price = candle.close

\* The number of openPosition calls that opened a position: every opened position
\* and every trade took one id.
PositionsOpened == sim.nextId - 1 - Len(sim.trades)

OpenedOnLastCandle ==
    { k \in 1..Len(sim.portfolio.openPositions) :
        candle # NoCandle /\ sim.portfolio.openPositions[k].entryTime = candle.timestamp }

\* C35: a position opened while the signal of candle i is applied is not tested on
\* candle i and its trailing-stop state is not updated on it: after the iteration it
\* is open as openPosition made it, and every trade closed by stop loss, trailing
\* stop or take profit has its exit time after its entry time.
C35_NoExitCheckOnEntryCandle ==
    /\ \A k \in 1..Len(sim.trades) :
           sim.trades[k].exitReason \in {"stop_loss", "trailing_stop", "take_profit"}
               => sim.trades[k].exitTime > sim.trades[k].entryTime
    /\ \A k \in OpenedOnLastCandle :
           LET position == sim.portfolio.openPositions[k]
           IN  /\ position.unrealizedPnl = 0
               /\ position.trailingStop.present
                     => /\ ~position.trailingStop.active
                        /\ position.trailingStop.currentStop = 0
                        /\ position.trailingStop.highestPrice
                               = (IF position.side = "long" THEN position.entryPrice ELSE 0)
                        /\ position.trailingStop.lowestPrice
                               = (IF position.side = "short" THEN position.entryPrice ELSE 0)

\* A position was opened on a candle whose low is below its stop loss, and was
\* closed by the stop loss on the next candle.
C35_Witness ==
    /\ Len(sim.trades) >= 1
    /\ sim.trades[1].exitReason = "stop_loss"
    /\ sim.trades[1].exitTime = sim.trades[1].entryTime + 1
    /\ candle.timestamp = sim.trades[1].exitTime

\* C36: whenever the portfolio holds no open position, availableCapital equals
\* currentCapital.
C36_AvailableEqualsCurrentWhenFlat ==
    sim.portfolio.openPositions = <<>>
        => sim.portfolio.availableCapital = sim.portfolio.currentCapital

\* C36 for runs without commission that closed long positions only.
FlatAfterLongsWithoutCommission ==
    (/\ sim.portfolio.openPositions = <<>>
     /\ config.commissionPercent = 0
     /\ \A k \in 1..Len(sim.trades) : sim.trades[k].side = "long")
        => sim.portfolio.availableCapital = sim.portfolio.currentCapital

\* A download status that has reached 'completed' or 'failed'.
Finished(status) == status.exists /\ status.status \in {"completed", "failed"}

\* C38: a download status that has reached 'completed' or 'failed' is not modified
\* afterwards, and the status of a symbol is 'completed' or 'failed' only when no
\* fetch of that symbol is still running.
C38_FinishedStatusIsFinal ==
    /\ [](\A symbol \in Symbols :
             Finished(activeDownloads[symbol]) => \A f \in fetches : f.symbol # symbol)
    /\ [][\A symbol \in Symbols :
             (Finished(activeDownloads[symbol])
              /\ activeDownloads'[symbol].id = activeDownloads[symbol].id)
                 => activeDownloads'[symbol] = activeDownloads[symbol]]_vars

\* C37: a fetchCachedCandles call that returns with the cache up has handed every candle
\* the exchange delivered for its missing ranges to saveCandles exactly once, in the
\* order of delivery, has left none in its buffer, and reports their number as
\* stats.fromApi.
C37_EveryDeliveredCandleSavedOnce ==
    \A k \in 1..Len(fetchCalls) :
        (fetchCalls[k].cacheAvailable /\ ~fetchCalls[k].rejected)
            => /\ fetchCalls[k].passedToSave = fetchCalls[k].delivered
               /\ fetchCalls[k].pending = <<>>
               /\ fetchCalls[k].stats.fromApi = Len(fetchCalls[k].delivered)

\* A call with the cache up whose two delivered candles stay under the save threshold
\* and are saved by the flush that follows the last range.
C37_Witness ==
    \E k \in 1..Len(fetchCalls) :
        /\ fetchCalls[k].cacheAvailable
        /\ ~fetchCalls[k].rejected
        /\ Len(fetchCalls[k].delivered) = 2
        /\ fetchCalls[k].saveCalls = 1
        /\ fetchCalls[k].passedToSave = fetchCalls[k].delivered

\* C40: in fetchHistoricalOHLCV every loop iteration that receives a non-empty batch
\* leaves the cursor since strictly greater than it was, whatever the exchange answers.
C40_CursorStrictlyIncreases ==
    [][(paging.state = "loop" /\ paging'.state = "loop" /\ paging'.requests > paging.requests)
           => paging'.since > paging.since]_vars

\* The cursor does increase in every iteration whose batch ends with a candle that is
\* not older than the cursor.
CursorIncreasesWhenBatchNotBehind ==
    [][(/\ paging.state = "loop" /\ paging'.state = "loop"
        /\ paging'.requests > paging.requests
        /\ paging'.batch[Len(paging'.batch)].timestamp >= paging.since)
           => paging'.since > paging.since]_vars

\* C39: after any sequence of saveCandles and clearCache calls, the metadata document
\* counts exactly the candle documents stored, and every stored timestamp lies between
\* its firstTimestamp and its lastTimestamp.
C39_MetadataMatchesStoredCandles ==
    /\ metadata.candleCount = Cardinality(candleDocs)
    /\ \A d \in candleDocs :
           /\ metadata.exists
           /\ metadata.firstTimestamp <= d.timestamp
           /\ d.timestamp <= metadata.lastTimestamp

\* The operands of a predicate: left and right now for the comparisons, left and right
\* now and on the previous candle for the crossings, left now and on the previous
\* candle for is_rising and is_falling.
OperandResolvesToNull(condition, context) ==
    LET leftNow == resolveValue(condition.left, context, FALSE) = Null
        rightNow == resolveValue(condition.right, context, FALSE) = Null
        leftBefore == context.hasPrevious /\ resolveValue(condition.left, context, TRUE) = Null
        rightBefore ==
            context.hasPrevious /\ resolveValue(condition.right, context, TRUE) = Null
    IN  IF condition.type \in {"crosses_above", "crosses_below"}
        THEN leftNow \/ rightNow \/ leftBefore \/ rightBefore
        ELSE IF condition.type \in {"is_rising", "is_falling"} THEN leftNow \/ leftBefore
        ELSE leftNow \/ rightNow

\* C31: evaluateCondition returns false for every predicate one of whose operands,
\* left or right, of the candle or of the previous one, resolves to null.
C31_NullOperandGivesFalse ==
    (evaluated.called /\ OperandResolvesToNull(evaluated.condition, evaluated.context))
        => ~evaluated.value

\* The predicates other than not_equals and between are false on a null operand.
NullOperandGivesFalseButForNotEqualsAndBetween ==
    (/\ evaluated.called
     /\ evaluated.condition.type \notin {"not_equals", "between"}
     /\ OperandResolvesToNull(evaluated.condition, evaluated.context))
        => ~evaluated.value

\* The positions in the series of the candles of the group that starts at g.
GroupOf(g) ==
    {k \in 1..Len(aggregated.data) :
         (aggregated.data[k].timestamp \div aggregated.targetMs) * aggregated.targetMs = g}

GroupStarts ==
    {(aggregated.data[k].timestamp \div aggregated.targetMs) * aggregated.targetMs :
         k \in 1..Len(aggregated.data)}

RECURSIVE VolumeOf(_)
VolumeOf(K) ==
    IF K = {} THEN 0
    ELSE LET k == CHOOSE j \in K : TRUE IN aggregated.data[k].volume + VolumeOf(K \ {k})

====
